---- MODULE Spec2Model ----
(***************************************************************************)
(* Janus-Weather: the daily weather logger, the prediction log (accuracy   *)
(* tracker), the backtest seed script and the school-delay scorer, as a    *)
(* state machine over the two JSON stores.                                  *)
(*                                                                          *)
(* Dates are day numbers (an ISO date string orders as its day number).     *)
(* Snowfall is kept in tenths of an inch (0.5in = 5), every other number    *)
(* in the unit the code uses.  JavaScript null and undefined are Null.      *)
(***************************************************************************)
EXTENDS Integers, Sequences, FiniteSets, Bags, TLC

\* null or undefined where the code expects a string
Null == "null"

\* null or undefined where the code expects a number, a boolean or an object:
\* a nullable value is None or Some(v)
None == <<>>
Some(v) == <<v>>

(***************************************************************************)
(* Bounds of the model.                                                     *)
(***************************************************************************)
\* the clock runs over days 0 .. MaxDay
MaxDay == 2

(***************************************************************************)
(* Small helpers: JavaScript arithmetic and array methods.                  *)
(* Array.prototype.filter is SelectSeq.  Array.prototype.sort with a        *)
(* comparator is SortSeq with "Before(a, b) iff compare(a, b) < 0": like    *)
(* that sort, SortSeq is stable, it moves an element ahead of the elements  *)
(* it compares before and of no other.                                      *)
(***************************************************************************)
Max(a, b) == IF a >= b THEN a ELSE b
Min(a, b) == IF a <= b THEN a ELSE b
Abs(x) == IF x < 0 THEN -x ELSE x

\* Math.round(n / d) for d > 0: round half up
Round(n, d) == (2 * n + d) \div (2 * d)

\* Math.round(n / d) for an even d > 0 and n near the 32-bit range
RoundDiv(n, d) == (n + d \div 2) \div d

\* Number(x) of a nullable number: null takes part in arithmetic and in
\* comparisons as 0
ToNum(x) == IF x = None THEN 0 ELSE x[1]

Range(s) == {s[i] : i \in 1..Len(s)}

\* Array.prototype.slice(-n)
LastN(s, n) == IF Len(s) <= n THEN s ELSE SubSeq(s, Len(s) - n + 1, Len(s))

\* Array.prototype.slice(0, n)
FirstN(s, n) == IF Len(s) <= n THEN s ELSE SubSeq(s, 1, n)

(***************************************************************************)
(* The roster and the name tables.                                          *)
(***************************************************************************)
INDIANA_COUNTY_SCHOOLS == <<"IASD", "HCSD", "MCASD", "PMASD", "PLSD", "USD">>

SCHOOL_CODE_TO_NAME ==
  [IASD |-> "Indiana", HCSD |-> "Homer-Center", MCASD |-> "Marion Center",
   PMASD |-> "Penns Manor", PLSD |-> "Purchase Line", USD |-> "United"]

SCHOOL_CODE_TO_HISTORICAL_NAME ==
  [IASD |-> "Indiana", HCSD |-> "Homer-Center", MCASD |-> "Marion Center",
   PMASD |-> "Penns Manor", PLSD |-> "Purchase Line", USD |-> "United"]

SchoolCodes == Range(INDIANA_COUNTY_SCHOOLS)
SchoolNames == {SCHOOL_CODE_TO_NAME[c] : c \in SchoolCodes}

\* Object.keys(SCHOOL_CODE_TO_NAME).find(code => SCHOOL_CODE_TO_NAME[code] === name)
CodeOfName(name) ==
  IF \E c \in SchoolCodes : SCHOOL_CODE_TO_NAME[c] = name
  THEN CHOOSE c \in SchoolCodes : SCHOOL_CODE_TO_NAME[c] = name
  ELSE Null

\* String.prototype.localeCompare on the school names: their collation rank
SchoolRank(name) ==
  CASE name = "Homer-Center" -> 1
    [] name = "Indiana" -> 2
    [] name = "Marion Center" -> 3
    [] name = "Penns Manor" -> 4
    [] name = "Purchase Line" -> 5
    [] name = "United" -> 6
    [] OTHER -> 7

(***************************************************************************)
(* School statuses as getSchoolStatuses reports them, and normalizeStatus.  *)
(***************************************************************************)
\* the status strings parseSchoolStatus can return, plus the 'open' default
RawStatuses ==
  {"closed", "2-hour delay", "delayed", "early dismissal",
   "flexible instruction", "open", "unknown"}

\* a faulty normalizeStatus, for which a school of unknown status is open
normalizeStatusGuessOpen(status) ==
  IF status = Null THEN "open"
  ELSE IF status = "closed" THEN "closed"
  ELSE IF status \in {"2-hour delay", "delayed", "delay"} THEN "delay"
  ELSE IF status = "early dismissal" THEN "early dismissal"
  ELSE IF status \in {"flexible instruction", "flexible instruction day"}
       THEN "flexible instruction day"
  ELSE "open"

\* normalizeStatus of weatherLogger.js, on the strings above: the tests
\* s === 'closed' || includes('remote'), includes('delay'),
\* includes('early dismissal'), includes('flexible instruction'), s === 'open'
normalizeStatus(status) ==
  IF status = Null THEN Null
  ELSE IF status = "closed" THEN "closed"
  ELSE IF status \in {"2-hour delay", "delayed", "delay"} THEN "delay"
  ELSE IF status = "early dismissal" THEN "early dismissal"
  ELSE IF status \in {"flexible instruction", "flexible instruction day"}
       THEN "flexible instruction day"
  ELSE IF status = "open" THEN "open"
  ELSE Null

\* schoolStatuses[code]?.status
StatusOf(schoolStatuses, code) ==
  IF code \in DOMAIN schoolStatuses THEN schoolStatuses[code] ELSE Null

(***************************************************************************)
(* Forecast text.  A period's description is one of the strings below; the  *)
(* tables give what String.includes and the snow-amount regular expression  *)
(* /(\d+)\s*(?:to\s*(\d+))?\s*inch/ find in the lower-cased string.         *)
(***************************************************************************)
ForecastTexts ==
  {"mostly sunny, with a high near 35",
   "partly cloudy, with a low around 22",
   "snow likely, new snow accumulation of 3 to 5 inches possible",
   "heavy snow, total snow accumulation of 6 to 8 inches",
   "snow showers likely",
   "a chance of flurries",
   "freezing rain and sleet likely",
   "light snow, accumulation around 1 inch",
   ""}

\* "new snow accumulation of around N inches", for N = 1 .. 8: texts that
\* differ in the amount only
AmountTexts ==
  <<"new snow accumulation of around 1 inch",
    "new snow accumulation of around 2 inches",
    "new snow accumulation of around 3 inches",
    "new snow accumulation of around 4 inches",
    "new snow accumulation of around 5 inches",
    "new snow accumulation of around 6 inches",
    "new snow accumulation of around 7 inches",
    "new snow accumulation of around 8 inches">>

AmountTextSet == Range(AmountTexts)

\* parseInt of the digits of such a text
AmountOfText(text) == CHOOSE n \in DOMAIN AmountTexts : AmountTexts[n] = text

\* the keywords the code searches for that occur in the text
TextWords(text) ==
  CASE text \in AmountTextSet -> {"snow"}
    [] text = "snow likely, new snow accumulation of 3 to 5 inches possible"
         -> {"snow"}
    [] text = "heavy snow, total snow accumulation of 6 to 8 inches"
         -> {"snow", "heavy snow", "heavy"}
    [] text = "snow showers likely" -> {"snow", "snow shower"}
    [] text = "a chance of flurries" -> {"flurries"}
    [] text = "freezing rain and sleet likely" -> {"freezing rain", "sleet"}
    [] text = "light snow, accumulation around 1 inch"
         -> {"snow", "light snow", "light"}
    [] OTHER -> {}

\* the two groups of the first match of the snow-amount expression
TextSnowMatch(text) ==
  CASE text \in AmountTextSet -> Some([lo |-> AmountOfText(text), hi |-> None])
    [] text = "snow likely, new snow accumulation of 3 to 5 inches possible"
         -> Some([lo |-> 3, hi |-> Some(5)])
    [] text = "heavy snow, total snow accumulation of 6 to 8 inches"
         -> Some([lo |-> 6, hi |-> Some(8)])
    [] text = "light snow, accumulation around 1 inch"
         -> Some([lo |-> 1, hi |-> None])
    [] OTHER -> None

\* forecast.periods.slice(0, 4).map(p => text.toLowerCase()).join(' ')
\* is kept as the sequence of the (at most four) texts joined
RelevantText(forecast) == FirstN(forecast[1], 4)

\* relevantText.includes(word)
JoinedIncludes(texts, word) ==
  \E i \in 1..Len(texts) : word \in TextWords(texts[i])

\* relevantText.match(...): the first match in the joined text
JoinedSnowMatch(texts) ==
  LET hits == {i \in 1..Len(texts) : TextSnowMatch(texts[i]) # None}
  IN IF hits = {} THEN None
     ELSE TextSnowMatch(texts[CHOOSE i \in hits : \A j \in hits : i <= j])

\* snowMatch[2] ? parseInt(snowMatch[2]) : parseInt(snowMatch[1]), in inches
MatchAmount(m) == IF m[1].hi # None THEN m[1].hi[1] ELSE m[1].lo

(***************************************************************************)
(* Signal extraction of weatherLogger.js.                                   *)
(***************************************************************************)
\* Math.pow(windMph, 0.16) * 10^6 for the wind speeds of the model
Pow016(windMph) ==
  CASE windMph = 5 -> 1293705
    [] windMph = 10 -> 1445440
    [] windMph = 15 -> 1542320
    [] windMph = 20 -> 1614971
    [] windMph = 30 -> 1723215

\* Math.round(35.74 + 0.6215 T - 35.75 V^0.16 + 0.4275 T V^0.16), computed
\* as 35.74 + 0.6215 T - V^0.16 (35.75 - 0.4275 T) in units of 10^-7
WindChillFormula(tempF, windMph) ==
  LET hi == Pow016(windMph) \div 1000
      lo == Pow016(windMph) % 1000
      b == 357500 - 4275 * tempF
      n == 357400000 + 6215000 * tempF - (b * hi + (b * lo) \div 1000)
  IN RoundDiv(n, 10000000)

\* calculateWindChill(tempF, windMph): tempF nullable, windMph a number
calculateWindChill(tempF, windMph) ==
  IF tempF = None THEN None
  ELSE IF tempF[1] > 50 \/ windMph <= 3 THEN tempF
  ELSE Some(WindChillFormula(tempF[1], windMph))

\* estimateSnowfall(forecast), in tenths of an inch
estimateSnowfall(forecast) ==
  IF forecast = None THEN 0
  ELSE LET text == RelevantText(forecast)
           m == JoinedSnowMatch(text)
       IN IF m # None THEN 10 * MatchAmount(m)
          ELSE IF JoinedIncludes(text, "heavy snow") \/ JoinedIncludes(text, "blizzard")
               THEN 60
          ELSE IF JoinedIncludes(text, "moderate snow") THEN 30
          ELSE IF JoinedIncludes(text, "light snow") THEN 15
          ELSE IF JoinedIncludes(text, "snow shower") THEN 10
          ELSE IF JoinedIncludes(text, "flurries") \/ JoinedIncludes(text, "dusting")
               THEN 5
          ELSE 0

\* determineWeatherType(forecast, currentConditions, windChill)
determineWeatherType(forecast, windChill) ==
  IF forecast = None
  THEN (IF windChill # None /\ windChill[1] <= 10 THEN "frigid temperature" ELSE Null)
  ELSE LET text == RelevantText(forecast)
           m == JoinedSnowMatch(text)
       IN IF \E w \in {"ice", "freezing rain", "freezing drizzle", "sleet"} :
               JoinedIncludes(text, w)
          THEN "ice"
          ELSE IF JoinedIncludes(text, "snow") \/ JoinedIncludes(text, "flurries")
          THEN (IF m # None /\ MatchAmount(m) >= 6 THEN "heavy snow"
                ELSE IF JoinedIncludes(text, "heavy snow")
                        \/ JoinedIncludes(text, "blizzard")
                     THEN "heavy snow"
                ELSE "snow")
          ELSE IF windChill # None /\ windChill[1] <= 0 THEN "frigid temperature"
          ELSE IF JoinedIncludes(text, "high wind") \/ JoinedIncludes(text, "strong wind")
               THEN "wind"
          ELSE Null


(***************************************************************************)
(* The historical matcher of schoolDelay.js.  A record is                   *)
(* [school, date, status, temperature, snowfall, type, feelsLike].          *)
(***************************************************************************)
\* a.includes(b) on the weather-type strings of the records and the scorer
\* and on the keywords categorizeEvent looks for
TypeIncludes(a, b) ==
  \/ a = b
  \/ b = ""
  \/ a = "heavy snow" /\ b = "snow"

\* categorizeEvent(snow, type), snow in tenths of an inch
categorizeEvent(snow, type) ==
  IF TypeIncludes(type, "ice") \/ TypeIncludes(type, "freezing") THEN "ice"
  ELSE IF snow >= 30 THEN "heavy-snow"
  ELSE IF snow >= 10 THEN "light-snow"
  ELSE IF TypeIncludes(type, "snow") \/ TypeIncludes(type, "flurr") THEN "light-snow"
  ELSE "cold-only"

\* the tiers shared by the temperature and the feels-like closeness
ClosenessPoints(diff) ==
  IF diff <= 5 THEN 3 ELSE IF diff <= 10 THEN 2 ELSE IF diff <= 15 THEN 1 ELSE 0

\* the same scoring with the disqualification at eight inches
ScoreRecordEightInches(record, temperature, feelsLike, snowfall, weatherType) ==
  LET currentCategory == categorizeEvent(snowfall, weatherType)
      recordCategory == categorizeEvent(record.snowfall, record.type)
      snowDiff == Abs(record.snowfall - snowfall)
      category ==
        IF currentCategory = recordCategory THEN 4
        ELSE IF \/ currentCategory = "cold-only" /\ recordCategory = "heavy-snow"
                \/ currentCategory = "heavy-snow" /\ recordCategory = "cold-only"
             THEN -6
        ELSE -2
      temp == ClosenessPoints(Abs(record.temperature - ToNum(temperature)))
      feels == ClosenessPoints(Abs(record.feelsLike - ToNum(feelsLike)))
      snow == IF snowDiff <= 5 THEN 4 ELSE IF snowDiff <= 10 THEN 3
              ELSE IF snowDiff <= 20 THEN 2 ELSE IF snowDiff <= 30 THEN 1 ELSE 0
      type == IF weatherType # "" /\ record.type # "" /\ weatherType = record.type
              THEN 2
              ELSE IF weatherType # "" /\ record.type # ""
                      /\ (TypeIncludes(weatherType, record.type)
                          \/ TypeIncludes(record.type, weatherType))
                   THEN 1
              ELSE 0
  IN IF snowDiff > 80
     THEN [record |-> record, similarity |-> 0, disqualified |-> TRUE]
     ELSE [record |-> record, similarity |-> category + temp + feels + snow + type,
           disqualified |-> FALSE]

\* the body of scored = data.map(record => ...): the record with its
\* similarity and disqualified fields
ScoreRecord(record, temperature, feelsLike, snowfall, weatherType) ==
  LET currentCategory == categorizeEvent(snowfall, weatherType)
      recordCategory == categorizeEvent(record.snowfall, record.type)
      snowDiff == Abs(record.snowfall - snowfall)
      category ==
        IF currentCategory = recordCategory THEN 4
        ELSE IF \/ currentCategory = "cold-only" /\ recordCategory = "heavy-snow"
                \/ currentCategory = "heavy-snow" /\ recordCategory = "cold-only"
             THEN -6
        ELSE -2
      temp == ClosenessPoints(Abs(record.temperature - ToNum(temperature)))
      feels == ClosenessPoints(Abs(record.feelsLike - ToNum(feelsLike)))
      snow == IF snowDiff <= 5 THEN 4 ELSE IF snowDiff <= 10 THEN 3
              ELSE IF snowDiff <= 20 THEN 2 ELSE IF snowDiff <= 30 THEN 1 ELSE 0
      type == IF weatherType # "" /\ record.type # "" /\ weatherType = record.type
              THEN 2
              ELSE IF weatherType # "" /\ record.type # ""
                      /\ (TypeIncludes(weatherType, record.type)
                          \/ TypeIncludes(record.type, weatherType))
                   THEN 1
              ELSE 0
  IN IF snowDiff > 50
     THEN [record |-> record, similarity |-> 0, disqualified |-> TRUE]
     ELSE [record |-> record, similarity |-> category + temp + feels + snow + type,
           disqualified |-> FALSE]

\* scored.filter(r => !r.disqualified && r.similarity >= 5)
\*       .sort((a, b) => b.similarity - a.similarity)
SimilarDays(data, temperature, feelsLike, snowfall, weatherType) ==
  LET scored == [i \in 1..Len(data) |->
                   ScoreRecord(data[i], temperature, feelsLike, snowfall, weatherType)]
      Kept(r) == ~r.disqualified /\ r.similarity >= 5
      MoreSimilar(a, b) == a.similarity > b.similarity
  IN SortSeq(SelectSeq(scored, Kept), MoreSimilar)

\* the aggregate over the top matches
MatchAggregate(matches) ==
  LET IsClosed(r) == r.record.status = "closed"
      IsDelay(r) == r.record.status = "delay"
      closedCount == Len(SelectSeq(matches, IsClosed))
      delayCount == Len(SelectSeq(matches, IsDelay))
  IN [matchCount |-> Len(matches),
      closedCount |-> closedCount,
      delayCount |-> delayCount,
      disruptionRate |-> Round(100 * (closedCount + delayCount), Len(matches)),
      closureRate |-> Round(100 * closedCount, Len(matches)),
      delayRate |-> Round(100 * delayCount, Len(matches))]

\* an element of topMatches
TopMatch(r) ==
  [date |-> r.record.date, status |-> r.record.status,
   temperature |-> r.record.temperature, feelsLike |-> r.record.feelsLike,
   snowfall |-> r.record.snowfall, type |-> r.record.type]

\* the aggregate getHistoricalPrediction returns: with the three top matches
GlobalAggregate(matches) ==
  [topMatches |-> [i \in 1..Min(3, Len(matches)) |-> TopMatch(matches[i])]]
    @@ MatchAggregate(matches)

\* getHistoricalPrediction(temperature, feelsLike, snowfall, weatherType) over
\* the record set the module holds: None, or Some(aggregate of up to 8)
getHistoricalPrediction(data, temperature, feelsLike, snowfall, weatherType) ==
  LET similar == SimilarDays(data, temperature, feelsLike, snowfall, weatherType)
  IN IF similar = <<>> THEN None ELSE Some(GlobalAggregate(FirstN(similar, 8)))

\* the per-school search with the cut of the global one
getSchoolHistoricalPredictionTopEight(data, schoolName, temperature, feelsLike, snowfall, weatherType) ==
  LET OfSchool(r) == r.school = schoolName
      similar == SimilarDays(SelectSeq(data, OfSchool), temperature, feelsLike,
                             snowfall, weatherType)
  IN IF similar = <<>> THEN None ELSE Some(MatchAggregate(FirstN(similar, 8)))

\* getSchoolHistoricalPrediction(schoolName, ...): up to 5 of the school's records
getSchoolHistoricalPrediction(data, schoolName, temperature, feelsLike, snowfall, weatherType) ==
  LET OfSchool(r) == r.school = schoolName
      similar == SimilarDays(SelectSeq(data, OfSchool), temperature, feelsLike,
                             snowfall, weatherType)
  IN IF similar = <<>> THEN None ELSE Some(MatchAggregate(FirstN(similar, 5)))


(***************************************************************************)
(* calculateDelayProbability of schoolDelay.js.                             *)
(* currentConditions is None or Some([fahrenheit, mph]) (both nullable),    *)
(* forecast is None or Some(sequence of period texts), alerts a sequence    *)
(* of [event, severity].                                                    *)
(***************************************************************************)
THRESHOLDS ==
  [extremeCold |-> -10, veryCold |-> 0, cold |-> 10,
   heavySnow |-> 6, moderateSnow |-> 3, lightSnow |-> 1]

\* the alert filter: the lower-cased event includes 'winter', 'snow', 'ice',
\* 'blizzard', 'freeze' or 'cold'
IsWinterAlert(alert) ==
  alert.event \in {"Winter Storm Warning", "Winter Weather Advisory",
                   "Blizzard Warning", "Ice Storm Warning", "Extreme Cold Warning"}

\* a scoring factor: its description (text with the interpolated values) and impact
Factor(text, event, n, impact) ==
  [factor |-> [text |-> text, event |-> event, n |-> n], impact |-> impact]

\* winterAlerts.forEach(alert => ...)
AlertFactor(alert) ==
  IF alert.severity = "Extreme" THEN Factor("alert (Extreme)", alert.event, None, 50)
  ELSE IF alert.severity = "Severe" THEN Factor("alert (Severe)", alert.event, None, 40)
  ELSE IF alert.severity = "Moderate" THEN Factor("alert", alert.event, None, 25)
  ELSE Factor("alert", alert.event, None, 15)

AlertFactors(alerts) ==
  LET winterAlerts == SelectSeq(alerts, IsWinterAlert)
  IN [i \in 1..Len(winterAlerts) |-> AlertFactor(winterAlerts[i])]

\* the wind chill the scorer computes inline: tempF, unless tempF <= 50 and
\* windMph > 3 (a null tempF compares and multiplies as 0)
ScorerWindChill(currentConditions) ==
  LET tempF == currentConditions[1].fahrenheit
      windMph == ToNum(currentConditions[1].mph)
  IN IF ToNum(tempF) <= 50 /\ windMph > 3
     THEN Some(WindChillFormula(ToNum(tempF), windMph))
     ELSE tempF

\* "Analyze current temperature"
ColdFactors(currentConditions) ==
  IF currentConditions = None THEN <<>>
  ELSE LET windChill == ScorerWindChill(currentConditions)
       IN IF ToNum(windChill) <= THRESHOLDS.extremeCold
          THEN <<Factor("Extreme cold (wind chill)", "", windChill, 40)>>
          ELSE IF ToNum(windChill) <= THRESHOLDS.veryCold
          THEN <<Factor("Very cold (wind chill)", "", windChill, 25)>>
          ELSE IF ToNum(windChill) <= THRESHOLDS.cold
          THEN <<Factor("Cold temperatures (wind chill)", "", windChill, 10)>>
          ELSE <<>>

\* a faulty body, in which the heavy and the moderate snow tiers carry each
\* other's impact
PeriodFactorsTiersSwapped(desc) ==
  LET snowMatch == TextSnowMatch(desc)
      snowAmount == MatchAmount(snowMatch)
      amount ==
        IF snowMatch = None THEN <<>>
        ELSE IF snowAmount >= THRESHOLDS.heavySnow
             THEN <<Factor("Heavy snow forecast (+ inches)", "", Some(snowAmount), 30)>>
        ELSE IF snowAmount >= THRESHOLDS.moderateSnow
             THEN <<Factor("Moderate snow forecast (inches)", "", Some(snowAmount), 45)>>
        ELSE IF snowAmount >= THRESHOLDS.lightSnow
             THEN <<Factor("Light snow forecast (inches)", "", Some(snowAmount), 15)>>
        ELSE <<>>
      ice ==
        IF \E w \in {"ice", "freezing rain", "sleet"} : w \in TextWords(desc)
        THEN <<Factor("Ice/freezing rain in forecast", "", None, 35)>>
        ELSE <<>>
      mention ==
        IF snowMatch = None /\ ("snow" \in TextWords(desc) \/ "flurries" \in TextWords(desc))
        THEN (IF "heavy" \in TextWords(desc)
              THEN <<Factor("Heavy snow mentioned", "", None, 25)>>
              ELSE IF "light" \in TextWords(desc) \/ "flurries" \in TextWords(desc)
              THEN <<Factor("Light snow/flurries possible", "", None, 5)>>
              ELSE <<Factor("Snow in forecast", "", None, 15)>>)
        ELSE <<>>
  IN amount \o ice \o mention

\* the body of relevantPeriods.forEach(period => ...) for one description
PeriodFactors(desc) ==
  LET snowMatch == TextSnowMatch(desc)
      snowAmount == MatchAmount(snowMatch)
      amount ==
        IF snowMatch = None THEN <<>>
        ELSE IF snowAmount >= THRESHOLDS.heavySnow
             THEN <<Factor("Heavy snow forecast (+ inches)", "", Some(snowAmount), 45)>>
        ELSE IF snowAmount >= THRESHOLDS.moderateSnow
             THEN <<Factor("Moderate snow forecast (inches)", "", Some(snowAmount), 30)>>
        ELSE IF snowAmount >= THRESHOLDS.lightSnow
             THEN <<Factor("Light snow forecast (inches)", "", Some(snowAmount), 15)>>
        ELSE <<>>
      ice ==
        IF \E w \in {"ice", "freezing rain", "sleet"} : w \in TextWords(desc)
        THEN <<Factor("Ice/freezing rain in forecast", "", None, 35)>>
        ELSE <<>>
      mention ==
        IF snowMatch = None /\ ("snow" \in TextWords(desc) \/ "flurries" \in TextWords(desc))
        THEN (IF "heavy" \in TextWords(desc)
              THEN <<Factor("Heavy snow mentioned", "", None, 25)>>
              ELSE IF "light" \in TextWords(desc) \/ "flurries" \in TextWords(desc)
              THEN <<Factor("Light snow/flurries possible", "", None, 5)>>
              ELSE <<Factor("Snow in forecast", "", None, 15)>>)
        ELSE <<>>
  IN amount \o ice \o mention

\* "Analyze forecast for snow/ice keywords"
ForecastFactors(forecast) ==
  IF forecast = None THEN <<>>
  ELSE LET periods == RelevantText(forecast)
           F[i \in 0..Len(periods)] ==
             IF i = 0 THEN <<>> ELSE F[i - 1] \o PeriodFactors(periods[i])
       IN F[Len(periods)]

SumImpacts(factors) ==
  LET S[i \in 0..Len(factors)] ==
        IF i = 0 THEN 0 ELSE S[i - 1] + factors[i].impact
  IN S[Len(factors)]

\* the additive rule score and its factors, before any blending or cap
HeuristicFactors(currentConditions, forecast, alerts) ==
  AlertFactors(alerts) \o ColdFactors(currentConditions) \o ForecastFactors(forecast)

\* snowEstimate (tenths of an inch) and weatherType of the joined forecast
\* text, as the scorer and saveTomorrowPredictions derive them
ScorerSnowEstimate(forecast) ==
  IF forecast = None THEN 0
  ELSE LET m == JoinedSnowMatch(RelevantText(forecast))
       IN IF m = None THEN 0 ELSE 10 * MatchAmount(m)

ScorerWeatherType(forecast, windChill) ==
  IF forecast = None THEN ""
  ELSE LET text == RelevantText(forecast)
       IN IF JoinedIncludes(text, "ice") \/ JoinedIncludes(text, "freezing rain")
          THEN "ice"
          ELSE IF JoinedIncludes(text, "snow") THEN "snow"
          ELSE IF ToNum(windChill) <= 10 THEN "frigid temperature"
          ELSE ""

\* "Historical pattern analysis": the aggregate of the similar days, or None
ScorerHistoricalMatch(data, currentConditions, forecast) ==
  IF currentConditions = None THEN None
  ELSE LET windChill == ScorerWindChill(currentConditions)
       IN getHistoricalPrediction(data, currentConditions[1].fahrenheit, windChill,
                                  ScorerSnowEstimate(forecast),
                                  ScorerWeatherType(forecast, windChill))

\* Math.round(probability * (rate / disruptionRate)): the exact quotient
\* rounded half up, except where the double product falls just below the half
SplitShare(probability, rate, disruptionRate) ==
  IF <<probability, rate, disruptionRate>> \in
       {<<43, 57, 86>>, <<50, 29, 100>>, <<50, 57, 100>>}
  THEN Round(probability * rate, disruptionRate) - 1
  ELSE Round(probability * rate, disruptionRate)

\* the status tier of a probability
RiskTier(probability) ==
  IF probability >= 70 THEN "high"
  ELSE IF probability >= 40 THEN "moderate"
  ELSE IF probability >= 15 THEN "low"
  ELSE "minimal"

\* factors.filter((f, i, arr) => arr.findIndex(x => x.factor === f.factor) === i)
UniqueFactors(factors) ==
  LET F[i \in 0..Len(factors)] ==
        IF i = 0 THEN <<>>
        ELSE IF \E j \in 1..(i - 1) : factors[j].factor = factors[i].factor
             THEN F[i - 1]
        ELSE Append(F[i - 1], factors[i])
  IN F[Len(factors)]

\* a faulty blend, without the cap at 95
BlendedProbabilityUncapped(heuristic, historicalMatch) ==
  IF historicalMatch = None THEN SumImpacts(heuristic)
  ELSE Round(6 * SumImpacts(heuristic) + 4 * historicalMatch[1].disruptionRate, 10)

\* "Blend heuristic with historical data": 60% heuristic and 40% historical
\* when there are similar days, then the cap at 95
BlendedProbability(heuristic, historicalMatch) ==
  Min(IF historicalMatch = None THEN SumImpacts(heuristic)
      ELSE Round(6 * SumImpacts(heuristic) + 4 * historicalMatch[1].disruptionRate, 10),
      95)

\* the factors, with the "Historical pattern" factor the blending pushes
BlendedFactors(heuristic, historicalMatch) ==
  IF historicalMatch = None THEN heuristic
  ELSE Append(heuristic,
              Factor("Historical pattern", "", Some(historicalMatch[1].matchCount),
                     Round(4 * historicalMatch[1].disruptionRate, 10)))

\* a faulty split, which always uses the fixed shares of the tier
SplitProbabilityByTier(probability, historicalMatch) ==
  IF probability >= 70
  THEN [closureProbability |-> Round(6 * probability, 10),
        delayProbability |-> Round(4 * probability, 10)]
  ELSE IF probability >= 40
  THEN [closureProbability |-> Round(4 * probability, 10),
        delayProbability |-> Round(6 * probability, 10)]
  ELSE [closureProbability |-> Round(3 * probability, 10),
        delayProbability |-> Round(7 * probability, 10)]

\* "Split into delay vs closure probability": by the historical rates when
\* there are any, by the fixed shares of the tier otherwise
SplitProbability(probability, historicalMatch) ==
  IF historicalMatch # None /\ historicalMatch[1].disruptionRate > 0
  THEN [closureProbability |->
          SplitShare(probability, historicalMatch[1].closureRate,
                     historicalMatch[1].disruptionRate),
        delayProbability |->
          SplitShare(probability, historicalMatch[1].delayRate,
                     historicalMatch[1].disruptionRate)]
  ELSE IF probability >= 70
  THEN [closureProbability |-> Round(6 * probability, 10),
        delayProbability |-> Round(4 * probability, 10)]
  ELSE IF probability >= 40
  THEN [closureProbability |-> Round(4 * probability, 10),
        delayProbability |-> Round(6 * probability, 10)]
  ELSE [closureProbability |-> Round(3 * probability, 10),
        delayProbability |-> Round(7 * probability, 10)]

\* the object calculateDelayProbability returns
Prediction(probability, factors, historicalMatch) ==
  [probability |-> probability,
   delayProbability |-> SplitProbability(probability, historicalMatch).delayProbability,
   closureProbability |-> SplitProbability(probability, historicalMatch).closureProbability,
   status |-> RiskTier(probability),
   factors |-> UniqueFactors(factors),
   historicalMatch |-> historicalMatch]

\* the second half of calculateDelayProbability, from the heuristic factors
\* and the historical match
BlendAndSplit(heuristic, historicalMatch) ==
  Prediction(BlendedProbability(heuristic, historicalMatch),
             BlendedFactors(heuristic, historicalMatch),
             historicalMatch)

calculateDelayProbability(data, currentConditions, forecast, alerts) ==
  BlendAndSplit(HeuristicFactors(currentConditions, forecast, alerts),
                ScorerHistoricalMatch(data, currentConditions, forecast))


(***************************************************************************)
(* The state: the two JSON files, the record set schoolDelay.js loaded when *)
(* the server process started, and the clock.                               *)
(*                                                                          *)
(* A file is the sequence loadHistoricalData / loadPredictionLog parse from *)
(* it; a file that does not exist yet loads as [], the empty sequence.      *)
(* Runs are whole steps: they do not overlap.  The processes run in UTC, as *)
(* the scheduled workflow and the serverless route do, so the date a run    *)
(* calls tomorrow is the day after the one it calls today.                  *)
(***************************************************************************)
VARIABLES
  today,           \* the current date (new Date()), a day number
  historicalData,  \* historicalData.json: a sequence of records
  predictionLog,   \* predictionLog.json: a sequence of entries
  moduleData,      \* const historicalData = require('./historicalData.json')
  upstream,        \* what NOAA serves now: [conditions, forecast, alerts]
  response,        \* the last body GET /api/schools/delay sent, None before
  writers,         \* the runs of logWeatherData under way, one per process
  now,             \* Date.now(), in minutes
  statusCache,     \* let statusCache of schoolDelay.js, in the server process
  callers,         \* the calls of getSchoolStatuses under way in that process
  refreshStarted,  \* when the latest refetch of the statuses started, if any
  served           \* what the last call of getSchoolStatuses returned, if any

vars ==
  <<today, historicalData, predictionLog, moduleData, upstream, response, writers,
    now, statusCache, callers, refreshStarted, served>>

\* const CACHE_DURATION = 5 * 60 * 1000, in minutes
CACHE_DURATION == 5

\* the requests that may be calling getSchoolStatuses at one time
Callers == {"one", "other"}

\* a request that is not calling getSchoolStatuses; now is the local of a
\* call that is under way
IdleCaller == [pc |-> "idle", now |-> 0]

\* the server process has just started: statusCache = {lastUpdated: null,
\* statuses: {}} and nothing is under way.  Date.now() is a positive number.
StatusCacheAtStart ==
  /\ now = 1
  /\ statusCache = [lastUpdated |-> None, statuses |-> <<>>]
  /\ callers = [c \in Callers |-> IdleCaller]
  /\ refreshStarted = None
  /\ served = None

\* the processes that may run logWeatherData side by side
Writers == {"first", "second"}

\* a process that has not run logWeatherData yet; overlapped records that
\* its run was under way while the run of another process was
IdleWriter ==
  [pc |-> "idle", date |-> 0, forceLog |-> FALSE, fetched |-> None,
   module |-> <<>>, loop |-> None, tracking |-> None, tomorrow |-> 0,
   overlapped |-> FALSE]

NoWriters == [w \in Writers |-> IdleWriter]

(***************************************************************************)
(* logWeatherData: the historical-record part.                              *)
(***************************************************************************)
\* nonWeatherClosures.json: [date, all, schools, reason]
NON_WEATHER_CLOSURES ==
  <<[date |-> 1, all |-> FALSE, schools |-> {"United"}, reason |-> "Inservice day"]>>

\* getNonWeatherClosure(date, schoolName): the first matching closure, or None
getNonWeatherClosure(date, schoolName) ==
  LET Matches(c) == c.date = date /\ (c.all \/ schoolName \in c.schools)
      found == SelectSeq(NON_WEATHER_CLOSURES, Matches)
  IN IF found = <<>> THEN None ELSE Some(found[1])

\* a faulty recordExists, which looks only at the last record of the file
recordExistsLastOnly(data, school, date) ==
  /\ Len(data) > 0
  /\ data[Len(data)].school = school
  /\ data[Len(data)].date = date

\* recordExists(historicalData, school, date)
recordExists(data, school, date) ==
  \E i \in 1..Len(data) : data[i].school = school /\ data[i].date = date

\* new Date(dateStr).getMonth(): days 0 and 1 of the model are 30 and 31 March,
\* the later days are in April
DateMonth(date) == IF date <= 1 THEN 2 ELSE 3

\* isWinterSeason(dateStr)
isWinterSeason(date) == DateMonth(date) >= 10 \/ DateMonth(date) <= 2

\* the weather metrics logWeatherData derives from what it fetched
WeatherMetrics(currentConditions, forecast) ==
  LET tempF == IF currentConditions = None THEN None
               ELSE currentConditions[1].fahrenheit
      windMph == IF currentConditions = None THEN 0
                 ELSE ToNum(currentConditions[1].mph)
      windChill == calculateWindChill(tempF, windMph)
  IN [tempF |-> tempF, windChill |-> windChill,
      snowfall |-> estimateSnowfall(forecast),
      weatherType |-> determineWeatherType(forecast, windChill)]

\* "Create the record": x || y takes y when x is null or 0
NewRecord(schoolName, date, normalizedStatus, metrics) ==
  [school |-> schoolName,
   date |-> date,
   status |-> normalizedStatus,
   temperature |-> IF ToNum(metrics.tempF) # 0 THEN metrics.tempF[1] ELSE 32,
   snowfall |-> metrics.snowfall,
   type |-> IF metrics.weatherType # Null THEN metrics.weatherType
            ELSE IF normalizedStatus # "open" THEN "unknown" ELSE "normal",
   feelsLike |-> IF ToNum(metrics.windChill) # 0 THEN metrics.windChill[1]
                 ELSE IF ToNum(metrics.tempF) # 0 THEN metrics.tempF[1]
                 ELSE 32]

\* `Non-weather closure: ${nonWeatherClosure.reason}`
NonWeatherClosureReason(closure) ==
  CASE closure.reason = "Inservice day" -> "Non-weather closure: Inservice day"
    [] closure.reason = "Holiday" -> "Non-weather closure: Holiday"
    [] OTHER -> "Non-weather closure: undefined"

\* one pass of "for (const school of INDIANA_COUNTY_SCHOOLS)": the state of
\* the loop is the in-memory array and the logged and skipped lists
ProcessSchool(acc, code, date, schoolStatuses, metrics, forceLog, dryRun) ==
  LET schoolName == SCHOOL_CODE_TO_NAME[code]
      normalizedStatus == normalizeStatus(StatusOf(schoolStatuses, code))
      Skip(reason) ==
        [acc EXCEPT !.skipped = Append(@, [school |-> schoolName, reason |-> reason])]
      record == NewRecord(schoolName, date, normalizedStatus, metrics)
  IN IF recordExists(acc.data, schoolName, date)
     THEN Skip("Record already exists for today")
     ELSE IF getNonWeatherClosure(date, schoolName) # None
     THEN Skip(NonWeatherClosureReason(getNonWeatherClosure(date, schoolName)[1]))
     ELSE IF normalizedStatus = Null
     THEN Skip("Unknown status")
     ELSE IF normalizedStatus = "open" /\ ~isWinterSeason(date) /\ ~forceLog
     THEN Skip("School is open (outside winter season, no disruption to log)")
     ELSE [data |-> IF dryRun THEN acc.data ELSE Append(acc.data, record),
           logged |-> Append(acc.logged, record),
           skipped |-> acc.skipped]

\* a faulty loop, which starts from an empty array instead of the loaded
\* file, so that the save keeps the new records only
ProcessSchoolsOverwriting(data, date, schoolStatuses, metrics, forceLog, dryRun) ==
  LET roster == INDIANA_COUNTY_SCHOOLS
      P[i \in 0..Len(roster)] ==
        IF i = 0 THEN [data |-> <<>>, logged |-> <<>>, skipped |-> <<>>]
        ELSE ProcessSchool(P[i - 1], roster[i], date, schoolStatuses, metrics,
                           forceLog, dryRun)
  IN P[Len(roster)]

\* the whole loop over the roster, from the loaded file
ProcessSchools(data, date, schoolStatuses, metrics, forceLog, dryRun) ==
  LET roster == INDIANA_COUNTY_SCHOOLS
      P[i \in 0..Len(roster)] ==
        IF i = 0 THEN [data |-> data, logged |-> <<>>, skipped |-> <<>>]
        ELSE ProcessSchool(P[i - 1], roster[i], date, schoolStatuses, metrics,
                           forceLog, dryRun)
  IN P[Len(roster)]

(***************************************************************************)
(* The accuracy tracker of weatherLogger.js.  An entry is                   *)
(* [date, school, delayProbability, closureProbability,                     *)
(*  predictedDisruption, actualStatus, correct, source]; correct is         *)
(* nullable, source is Null for an entry logged live.                       *)
(***************************************************************************)
\* a faulty loop body, without the test "entry.actualStatus === null"
ResolveEntryEveryRun(entry, schoolStatuses, date) ==
  LET schoolCode == CodeOfName(entry.school)
      actual == normalizeStatus(StatusOf(schoolStatuses, schoolCode))
  IN IF entry.date = date /\ actual # Null
     THEN [entry EXCEPT !.actualStatus = actual,
                        !.correct = Some(entry.predictedDisruption = (actual # "open"))]
     ELSE entry

\* a faulty loop body, which also takes the entries of earlier dates
ResolveEntryOverdue(entry, schoolStatuses, date) ==
  LET schoolCode == CodeOfName(entry.school)
      actual == normalizeStatus(StatusOf(schoolStatuses, schoolCode))
  IN IF entry.date <= date /\ entry.actualStatus = Null /\ actual # Null
     THEN [entry EXCEPT !.actualStatus = actual,
                        !.correct = Some(entry.predictedDisruption = (actual # "open"))]
     ELSE entry

\* a faulty loop body, for which only a closure or a delay is a disruption
ResolveEntryClosedOrDelay(entry, schoolStatuses, date) ==
  LET schoolCode == CodeOfName(entry.school)
      actual == normalizeStatus(StatusOf(schoolStatuses, schoolCode))
  IN IF entry.date = date /\ entry.actualStatus = Null /\ actual # Null
     THEN [entry EXCEPT !.actualStatus = actual,
                        !.correct = Some(entry.predictedDisruption
                                           = (actual \in {"closed", "delay"}))]
     ELSE entry

\* a faulty loop body, which records the status and leaves correct as it was
ResolveEntryStatusOnly(entry, schoolStatuses, date) ==
  LET schoolCode == CodeOfName(entry.school)
      actual == normalizeStatus(StatusOf(schoolStatuses, schoolCode))
  IN IF entry.date = date /\ entry.actualStatus = Null /\ actual # Null
     THEN [entry EXCEPT !.actualStatus = actual]
     ELSE entry

\* the body of the loop of resolvePredictions for one entry
ResolveEntry(entry, schoolStatuses, date) ==
  LET schoolCode == CodeOfName(entry.school)
      actual == normalizeStatus(StatusOf(schoolStatuses, schoolCode))
  IN IF entry.date = date /\ entry.actualStatus = Null /\ actual # Null
     THEN [entry EXCEPT !.actualStatus = actual,
                        !.correct = Some(entry.predictedDisruption = (actual # "open"))]
     ELSE entry

\* resolvePredictions(predictionLog, schoolStatuses, today): the log as it
\* leaves it, and the count it returns
resolvePredictions(log, schoolStatuses, date) ==
  [log |-> [i \in 1..Len(log) |-> ResolveEntry(log[i], schoolStatuses, date)],
   resolved |-> Cardinality({i \in 1..Len(log) :
                  /\ log[i].date = date
                  /\ log[i].actualStatus = Null
                  /\ normalizeStatus(StatusOf(schoolStatuses,
                                              CodeOfName(log[i].school))) # Null})]

\* a faulty entry, whose predictedDisruption looks at the delay probability
\* only
SchoolEntryDelayOnly(code, prediction, schoolPrediction, tomorrow) ==
  LET blend == schoolPrediction # None /\ schoolPrediction[1].matchCount >= 2
      delayProb ==
        IF blend
        THEN Round(6 * prediction.delayProbability + 4 * schoolPrediction[1].delayRate, 10)
        ELSE prediction.delayProbability
      closureProb ==
        IF blend
        THEN Round(6 * prediction.closureProbability
                     + 4 * schoolPrediction[1].closureRate, 10)
        ELSE prediction.closureProbability
  IN [date |-> tomorrow,
      school |-> SCHOOL_CODE_TO_NAME[code],
      delayProbability |-> delayProb,
      closureProbability |-> closureProb,
      predictedDisruption |-> (delayProb >= 40),
      actualStatus |-> Null,
      correct |-> None,
      source |-> Null]

\* the entry pushed for one school, from the overall prediction and the
\* school's own historical prediction (blended in when it has 2 matches)
SchoolEntry(code, prediction, schoolPrediction, tomorrow) ==
  LET blend == schoolPrediction # None /\ schoolPrediction[1].matchCount >= 2
      delayProb ==
        IF blend
        THEN Round(6 * prediction.delayProbability + 4 * schoolPrediction[1].delayRate, 10)
        ELSE prediction.delayProbability
      closureProb ==
        IF blend
        THEN Round(6 * prediction.closureProbability
                     + 4 * schoolPrediction[1].closureRate, 10)
        ELSE prediction.closureProbability
  IN [date |-> tomorrow,
      school |-> SCHOOL_CODE_TO_NAME[code],
      delayProbability |-> delayProb,
      closureProbability |-> closureProb,
      predictedDisruption |-> (Max(delayProb, closureProb) >= 40),
      actualStatus |-> Null,
      correct |-> None,
      source |-> Null]

\* the body of "for (const school of INDIANA_COUNTY_SCHOOLS)" in
\* saveTomorrowPredictions
TomorrowEntry(data, code, prediction, tempF, windChill, snowEstimate, weatherType, tomorrow) ==
  SchoolEntry(code, prediction,
              getSchoolHistoricalPrediction(data, SCHOOL_CODE_TO_HISTORICAL_NAME[code],
                                            Some(tempF), Some(windChill), snowEstimate,
                                            weatherType),
              tomorrow)

\* saveTomorrowPredictions(predictionLog, prediction, currentConditions,
\* forecast, schoolStatuses, tomorrow): the log as it leaves it, and the count
saveTomorrowPredictions(data, log, prediction, currentConditions, forecast, tomorrow) ==
  LET tempF == IF currentConditions = None \/ currentConditions[1].fahrenheit = None
               THEN 32 ELSE currentConditions[1].fahrenheit[1]
      windMph == IF currentConditions = None THEN 0
                 ELSE ToNum(currentConditions[1].mph)
      windChill == IF tempF <= 50 /\ windMph > 3
                   THEN WindChillFormula(tempF, windMph) ELSE tempF
      snowEstimate == ScorerSnowEstimate(forecast)
      weatherType == ScorerWeatherType(forecast, Some(windChill))
      roster == INDIANA_COUNTY_SCHOOLS
      entries == [i \in 1..Len(roster) |->
                    TomorrowEntry(data, roster[i], prediction, tempF, windChill,
                                  snowEstimate, weatherType, tomorrow)]
  IN IF \E i \in 1..Len(log) : log[i].date = tomorrow /\ log[i].actualStatus = Null
     THEN [log |-> log, saved |-> 0]
     ELSE [log |-> log \o entries, saved |-> Len(roster)]


\* a faulty empty report, whose status does not look at the pending entries
EmptyAccuracyNoData(pending) ==
  [total |-> 0, correct |-> 0, accuracy |-> 0,
   status |-> "no-data",
   pendingCount |-> Len(pending), totalResolved |-> 0]

\* the report of getPredictionAccuracy when nothing is resolved
EmptyAccuracy(pending) ==
  [total |-> 0, correct |-> 0, accuracy |-> 0,
   status |-> IF Len(pending) > 0 THEN "collecting" ELSE "no-data",
   pendingCount |-> Len(pending), totalResolved |-> 0]

\* a faulty window: resolved.slice(0, 30), the oldest entries
RecentResolvedOldest(resolved) == FirstN(resolved, 30)

\* const recent = resolved.slice(-30)
RecentResolved(resolved) == LastN(resolved, 30)

\* a faulty streak, counted inside the window of 30 only
CurrentStreakInWindow(resolved) ==
  LET recent == LastN(resolved, 30)
      wrong == {i \in 1..Len(recent) : recent[i].correct # Some(TRUE)}
      lastWrong == IF wrong = {} THEN 0
                   ELSE CHOOSE i \in wrong : \A j \in wrong : j <= i
  IN Len(recent) - lastWrong

\* the loop "for (i = resolved.length - 1; i >= 0; i--)": the number of
\* entries after the last one that is not correct
CurrentStreak(resolved) ==
  LET wrong == {i \in 1..Len(resolved) : resolved[i].correct # Some(TRUE)}
      lastWrong == IF wrong = {} THEN 0
                   ELSE CHOOSE i \in wrong : \A j \in wrong : j <= i
  IN Len(resolved) - lastWrong

\* getPredictionAccuracy(), on the log it loads
getPredictionAccuracy(log) ==
  LET IsResolved(e) == e.correct # None
      IsPending(e) == e.correct = None
      IsCorrect(e) == e.correct = Some(TRUE)
      IsLive(e) == e.source # "backtest"
      resolved == SelectSeq(log, IsResolved)
      pending == SelectSeq(log, IsPending)
      recent == RecentResolved(resolved)
      correctCount == Len(SelectSeq(recent, IsCorrect))
      liveCount == Len(SelectSeq(recent, IsLive))
  IN IF Len(resolved) = 0
     THEN EmptyAccuracy(pending)
     ELSE [total |-> Len(recent),
           correct |-> correctCount,
           accuracy |-> Round(100 * correctCount, Len(recent)),
           status |-> "active",
           streak |-> CurrentStreak(resolved),
           lastResolvedDate |-> resolved[Len(resolved)].date,
           pendingCount |-> Len(pending),
           totalResolved |-> Len(resolved),
           liveCount |-> liveCount,
           backtestCount |-> Len(recent) - liveCount]

(***************************************************************************)
(* The seed script (scripts: seed the prediction log from the historical    *)
(* records).                                                                *)
(***************************************************************************)
SEED_THRESHOLDS ==
  [extremeCold |-> -10, veryCold |-> 0, cold |-> 10,
   heavySnow |-> 60, moderateSnow |-> 30, lightSnow |-> 10]

\* Math.round(probability * 0.35): 90 * 0.35 is 31.499999999999996 in doubles
RoundTimes035(probability) ==
  IF probability = 90 THEN 31 ELSE Round(35 * probability, 100)

\* "Split into delay/closure probabilities using the same heuristic tiers"
SeedSplit(probability) ==
  [probability |-> probability,
   delayProbability |->
     IF probability >= 85 THEN RoundTimes035(probability)
     ELSE IF probability >= 70 THEN Round(45 * probability, 100)
     ELSE IF probability >= 55 THEN Round(55 * probability, 100)
     ELSE IF probability >= 40 THEN Round(65 * probability, 100)
     ELSE Round(75 * probability, 100),
   closureProbability |->
     IF probability >= 85 THEN Round(65 * probability, 100)
     ELSE IF probability >= 70 THEN Round(55 * probability, 100)
     ELSE IF probability >= 55 THEN Round(45 * probability, 100)
     ELSE IF probability >= 40 THEN Round(35 * probability, 100)
     ELSE Round(25 * probability, 100)]

\* simulateProbability(record)
simulateProbability(record) ==
  LET T == SEED_THRESHOLDS
      feelsLike == record.feelsLike
      snowfall == record.snowfall
      ice == TypeIncludes(record.type, "ice") \/ TypeIncludes(record.type, "freezing rain")
      frigid == record.type = "frigid temperature"
      cold == IF feelsLike <= T.extremeCold THEN 40
              ELSE IF feelsLike <= T.veryCold THEN 25
              ELSE IF feelsLike <= T.cold THEN 10 ELSE 0
      snow == IF snowfall >= T.heavySnow THEN 45
              ELSE IF snowfall >= T.moderateSnow THEN 30
              ELSE IF snowfall >= T.lightSnow THEN 15 ELSE 0
      icy == IF ice THEN 35 ELSE 0
      alert == IF snowfall >= T.heavySnow \/ feelsLike <= T.extremeCold THEN 30
               ELSE IF snowfall >= T.moderateSnow \/ ice \/ feelsLike <= T.veryCold
                    THEN 20
               ELSE IF snowfall >= T.lightSnow \/ feelsLike <= T.cold \/ frigid
                    THEN 15
               ELSE 0
  IN SeedSplit(Max(0, Min(cold + snow + icy + alert, 95)))

\* normalizeStatus of the seed script, on the statuses the records carry
seedNormalizeStatus(status) ==
  IF status = Null \/ status = "" THEN Null
  ELSE IF status = "open" THEN "open"
  ELSE IF status = "closed" THEN "closed"
  ELSE IF status \in {"delay", "2-hour delay", "delayed"} THEN "delay"
  ELSE IF status = "early dismissal" THEN "early dismissal"
  ELSE IF status \in {"flexible instruction day", "flexible instruction"}
       THEN "flexible instruction day"
  ELSE status

\* the entry main() pushes for a record, from its simulated probabilities
\* and its normalized status
BacktestEntry(record, sim, actualStatus) ==
  [date |-> record.date,
   school |-> record.school,
   delayProbability |-> sim.delayProbability,
   closureProbability |-> sim.closureProbability,
   predictedDisruption |-> (sim.probability >= 40),
   actualStatus |-> actualStatus,
   correct |-> Some((sim.probability >= 40) = (actualStatus # "open")),
   source |-> "backtest"]

\* the entry main() builds for one historical record
SeedEntry(record) ==
  BacktestEntry(record, simulateProbability(record), seedNormalizeStatus(record.status))

\* (a, b) => a.date.localeCompare(b.date) || a.school.localeCompare(b.school)
EntryBefore(a, b) ==
  \/ a.date < b.date
  \/ a.date = b.date /\ SchoolRank(a.school) < SchoolRank(b.school)

\* a faulty main(), without the test "existingKeys.has(key)"
SeedMergedLogUnfiltered(data, existingLog) ==
  LET newEntries == SortSeq([i \in 1..Len(data) |-> SeedEntry(data[i])], EntryBefore)
  IN SortSeq(existingLog \o newEntries, EntryBefore)

\* main(): the merged log it writes
SeedMergedLog(data, existingLog) ==
  LET existingKeys == {<<existingLog[i].date, existingLog[i].school>> :
                         i \in 1..Len(existingLog)}
      IsNew(record) == <<record.date, record.school>> \notin existingKeys
      fresh == SelectSeq(data, IsNew)
      newEntries == SortSeq([i \in 1..Len(fresh) |-> SeedEntry(fresh[i])], EntryBefore)
  IN SortSeq(existingLog \o newEntries, EntryBefore)


(***************************************************************************)
(* What the four fetches of a run can deliver.  A fetch that rejects is     *)
(* None.                                                                    *)
(***************************************************************************)
CalmConditions == [fahrenheit |-> Some(35), mph |-> Some(5)]
FrigidConditions == [fahrenheit |-> Some(5), mph |-> Some(20)]

CalmForecast ==
  <<"mostly sunny, with a high near 35", "partly cloudy, with a low around 22">>
StormForecast ==
  <<"heavy snow, total snow accumulation of 6 to 8 inches", "snow showers likely">>

WinterStormWarning == [event |-> "Winter Storm Warning", severity |-> "Severe"]

\* [conditions, forecast, alerts]
CalmDay ==
  [conditions |-> Some(CalmConditions), forecast |-> Some(CalmForecast),
   alerts |-> Some(<<>>)]
WinterStorm ==
  [conditions |-> Some(FrigidConditions), forecast |-> Some(StormForecast),
   alerts |-> Some(<<WinterStormWarning>>)]
NoaaUnreachable == [conditions |-> None, forecast |-> None, alerts |-> None]

\* getSchoolStatuses(): code -> status string
AllOpen == [c \in SchoolCodes |-> "open"]
MixedStatuses ==
  [IASD |-> "closed", HCSD |-> "2-hour delay", MCASD |-> "early dismissal",
   PMASD |-> "flexible instruction", PLSD |-> "open", USD |-> "unknown"]

\* what a run fetches: a calm day with every school open, or a storm day
\* with every kind of status
Fetches ==
  {[weather |-> CalmDay, statuses |-> Some(AllOpen)],
   [weather |-> WinterStorm, statuses |-> Some(MixedStatuses)]}

\* the options of a run: the daily job, the daily job with --force, and the
\* preview of the GET route
RunOptions ==
  {[forceLog |-> FALSE, dryRun |-> FALSE],
   [forceLog |-> TRUE, dryRun |-> FALSE],
   [forceLog |-> TRUE, dryRun |-> TRUE]}

(***************************************************************************)
(* logWeatherData({forceLog, dryRun}), as one step.  inServer tells whether *)
(* the run is served by the long-lived server process, whose schoolDelay.js *)
(* holds the records it loaded at start, or by a process started for the    *)
(* run (the daily script), which loads the file as it is now.               *)
(***************************************************************************)
\* one entry of results.errors, by its type
ErrorOf(type) == SetToBag({type})

\* a faulty error list, in which the fetch of the school statuses fails
\* silently
FetchErrorsStatusSilent(weather, statuses) ==
  (IF weather.conditions = None THEN ErrorOf("weather_fetch") ELSE EmptyBag)
  (+) (IF weather.forecast = None THEN ErrorOf("forecast_fetch") ELSE EmptyBag)
  (+) (IF weather.alerts = None THEN ErrorOf("alerts_fetch") ELSE EmptyBag)
  (+) (IF weather.conditions = None /\ weather.forecast = None
       THEN ErrorOf("no_weather_data") ELSE EmptyBag)

\* results.errors after the fetches, as the bag of the types of the entries
\* pushed (the catch handlers push in the order the fetches fail in)
FetchErrors(weather, statuses) ==
  (IF weather.conditions = None THEN ErrorOf("weather_fetch") ELSE EmptyBag)
  (+) (IF weather.forecast = None THEN ErrorOf("forecast_fetch") ELSE EmptyBag)
  (+) (IF weather.alerts = None THEN ErrorOf("alerts_fetch") ELSE EmptyBag)
  (+) (IF statuses = None THEN ErrorOf("school_status_fetch") ELSE EmptyBag)
  (+) (IF weather.conditions = None /\ weather.forecast = None
       THEN ErrorOf("no_weather_data") ELSE EmptyBag)

\* results.predictions and the log savePredictionLog writes
TrackingResult(resolution, saving) ==
  [log |-> saving.log,
   failed |-> FALSE,
   predictions |-> [resolved |-> resolution.resolved,
                    savedForTomorrow |-> saving.saved]]

\* the tracking after resolvePredictions and calculateDelayProbability have
\* returned: tomorrow's entries are saved into the log as resolved
SaveAfterResolving(data, resolution, prediction, weather, date) ==
  TrackingResult(resolution,
                 saveTomorrowPredictions(data, resolution.log, prediction,
                                         weather.conditions, weather.forecast,
                                         date + 1))

\* "Prediction accuracy tracking": the log the run saves and what it reports
TrackPredictions(data, log, date, schoolStatuses, weather) ==
  SaveAfterResolving(data,
                     resolvePredictions(log, schoolStatuses, date),
                     calculateDelayProbability(data, weather.conditions, weather.forecast,
                                               IF weather.alerts = None THEN <<>>
                                               ELSE weather.alerts[1]),
                     weather, date)

\* the tracking of a run whose second new Date() gave it the day before
\* tomorrow: the run resolves the entries of the date it started on and saves
\* the entries of the day after the one on which it tracks
TrackPredictionsOn(data, log, date, trackingDate, schoolStatuses, weather) ==
  LET resolution == resolvePredictions(log, schoolStatuses, date)
  IN TrackingResult(resolution,
                    saveTomorrowPredictions(
                      data, resolution.log,
                      calculateDelayProbability(data, weather.conditions,
                                                weather.forecast,
                                                IF weather.alerts = None THEN <<>>
                                                ELSE weather.alerts[1]),
                      weather.conditions, weather.forecast, trackingDate + 1))

\* what can go wrong inside the try block of the tracking: nothing, or one of
\* its calls fails.  loadPredictionLog catches its own failure; any other call
\* throws.  A savePredictionLog that throws leaves the file as it was when it
\* could not open it, and cut short when the write broke off.
TrackingFailures ==
  {"none", "loadPredictionLog", "resolvePredictions", "calculateDelayProbability",
   "saveTomorrowPredictions", "savePredictionLog", "savePredictionLog, file cut"}

\* the tracking when one of its calls throws: the catch block
TrackingCaught(log) == [log |-> log, failed |-> TRUE, predictions |-> None]

\* a faulty tracking, which saves the log after the resolve phase too, so
\* that a failure of the log phase leaves the resolutions in the file
TrackPredictionsUnderSavingTwice(failure, data, log, date, schoolStatuses, weather) ==
  CASE failure = "none" ->
         TrackPredictions(data, log, date, schoolStatuses, weather)
    [] failure = "loadPredictionLog" ->
         TrackPredictions(data, <<>>, date, schoolStatuses, weather)
    [] failure = "savePredictionLog, file cut" -> TrackingCaught(<<>>)
    [] failure \in {"calculateDelayProbability", "saveTomorrowPredictions"} ->
         TrackingCaught(resolvePredictions(log, schoolStatuses, date).log)
    [] OTHER -> TrackingCaught(log)

\* the tracking of a run in which the given call fails.  A log that cannot be
\* loaded is taken to be []; a file that was cut short no longer parses and
\* loads as [] from then on.
TrackPredictionsUnder(failure, data, log, date, schoolStatuses, weather) ==
  CASE failure = "none" ->
         TrackPredictions(data, log, date, schoolStatuses, weather)
    [] failure = "loadPredictionLog" ->
         TrackPredictions(data, <<>>, date, schoolStatuses, weather)
    [] failure = "savePredictionLog, file cut" -> TrackingCaught(<<>>)
    [] OTHER -> TrackingCaught(log)

\* a faulty run, which tracks the predictions in a dry run too
RunResultsTrackingDryRun(loop, tracking, dryRun, weather, statuses) ==
  [historicalData |-> IF loop.logged # <<>> /\ ~dryRun THEN loop.data
                      ELSE historicalData,
   predictionLog |-> tracking.log,
   results |-> [date |-> today,
                logged |-> loop.logged,
                skipped |-> loop.skipped,
                errors |-> FetchErrors(weather, statuses)
                             (+) (IF tracking.failed
                                  THEN ErrorOf("prediction_tracking") ELSE EmptyBag),
                predictions |-> IF tracking.failed THEN None
                                ELSE Some(tracking.predictions)]]

\* the two files as a run leaves them and the results object it returns,
\* from what the loop over the schools and the tracking produced
RunResults(loop, tracking, dryRun, weather, statuses) ==
  [historicalData |-> IF loop.logged # <<>> /\ ~dryRun THEN loop.data
                      ELSE historicalData,
   predictionLog |-> IF dryRun THEN predictionLog ELSE tracking.log,
   results |-> [date |-> today,
                logged |-> loop.logged,
                skipped |-> loop.skipped,
                errors |-> FetchErrors(weather, statuses)
                             (+) (IF ~dryRun /\ tracking.failed
                                  THEN ErrorOf("prediction_tracking") ELSE EmptyBag),
                predictions |-> IF dryRun \/ tracking.failed THEN None
                                ELSE Some(tracking.predictions)]]

\* what a run of logWeatherData does from the current state when the given
\* call of the tracking fails
RunOutcomeUnder(failure, forceLog, dryRun, inServer, weather, statuses) ==
  LET schoolStatuses == IF statuses = None THEN <<>> ELSE statuses[1]
  IN RunResults(ProcessSchools(historicalData, today, schoolStatuses,
                               WeatherMetrics(weather.conditions, weather.forecast),
                               forceLog, dryRun),
                TrackPredictionsUnder(failure,
                                      IF inServer THEN moduleData ELSE historicalData,
                                      predictionLog, today, schoolStatuses, weather),
                dryRun, weather, statuses)

\* what a run of logWeatherData does from the current state
RunOutcome(forceLog, dryRun, inServer, weather, statuses) ==
  RunOutcomeUnder("none", forceLog, dryRun, inServer, weather, statuses)

\* saveHistoricalData and savePredictionLog: the files after the run
WriteFiles(outcome) ==
  /\ historicalData' = outcome.historicalData
  /\ predictionLog' = outcome.predictionLog
  /\ UNCHANGED <<today, moduleData, upstream, response, writers,
               now, statusCache, callers, refreshStarted, served>>

LogWeatherData(forceLog, dryRun, inServer, weather, statuses) ==
  WriteFiles(RunOutcome(forceLog, dryRun, inServer, weather, statuses))

\* node scripts/daily-weather-log.js [--force] [--dry-run]
DailyScript ==
  \E options \in RunOptions, fetched \in Fetches :
    LogWeatherData(options.forceLog, options.dryRun, FALSE,
                   fetched.weather, fetched.statuses)

\* node scripts/seed...: main() of the seed script
SeedPredictionLog ==
  /\ predictionLog' = SeedMergedLog(historicalData, predictionLog)
  /\ UNCHANGED <<today, historicalData, moduleData, upstream, response, writers,
               now, statusCache, callers, refreshStarted, served>>

\* midnight: the next day begins
NextDay ==
  /\ today < MaxDay
  /\ today' = today + 1
  /\ UNCHANGED <<historicalData, predictionLog, moduleData, upstream, response,
               writers, now, statusCache, callers, refreshStarted, served>>

\* historicalData.json as the repository ships it: days before day 0
ShippedRecords ==
  <<[school |-> "Indiana", date |-> -1, status |-> "closed", temperature |-> 20,
     snowfall |-> 60, type |-> "heavy snow", feelsLike |-> 8],
    [school |-> "United", date |-> -1, status |-> "delay", temperature |-> 34,
     snowfall |-> 0, type |-> "normal", feelsLike |-> 30]>>

Init ==
  /\ today = 0
  /\ historicalData = ShippedRecords
  /\ predictionLog = <<>>
  /\ moduleData = ShippedRecords
  /\ upstream = CalmDay
  /\ response = None
  /\ writers = NoWriters
  /\ StatusCacheAtStart

Next == DailyScript \/ SeedPredictionLog \/ NextDay

Spec == Init /\ [][Next]_vars

(***************************************************************************)
(* The same daily script on days when things fail: the fetches of a storm   *)
(* day deliver or reject, and one call of the prediction tracking may fail. *)
(***************************************************************************)
\* each of the four fetches delivers or rejects
FailingFetches ==
  {[weather |-> [conditions |-> c, forecast |-> f, alerts |-> a], statuses |-> s] :
     c \in {None, WinterStorm.conditions}, f \in {None, WinterStorm.forecast},
     a \in {None, WinterStorm.alerts}, s \in {None, Some(MixedStatuses)}}

\* the days the script runs on: NOAA is unreachable, the status pages are,
\* both are, or the forecast alone is missing
OutageFetches ==
  {[weather |-> NoaaUnreachable, statuses |-> Some(MixedStatuses)],
   [weather |-> WinterStorm, statuses |-> None],
   [weather |-> NoaaUnreachable, statuses |-> None],
   [weather |-> [WinterStorm EXCEPT !.forecast = None], statuses |-> None]}

\* node scripts/daily-weather-log.js [--force] on such a day
DailyScriptFailing ==
  \E options \in {o \in RunOptions : ~o.dryRun}, fetched \in OutageFetches,
     failure \in TrackingFailures :
    WriteFiles(RunOutcomeUnder(failure, options.forceLog, options.dryRun, FALSE,
                               fetched.weather, fetched.statuses))

\* the files as shipped, on 31 March: the script did not run the day before
InitFailing ==
  /\ today = 1
  /\ historicalData = ShippedRecords
  /\ predictionLog = <<>>
  /\ moduleData = ShippedRecords
  /\ upstream = CalmDay
  /\ response = None
  /\ writers = NoWriters
  /\ StatusCacheAtStart

NextFailing == DailyScriptFailing \/ NextDay

SpecFailing == InitFailing /\ [][NextFailing]_vars

(***************************************************************************)
(* Two processes that each run logWeatherData once, side by side or one     *)
(* after the other, as two invocations of the daily script or of the        *)
(* logging route do.  Nothing locks the two files, so the steps of a run at *)
(* which it reads or writes a file are steps of their own: the process      *)
(* starts (and requires historicalData.json into schoolDelay.js), loads the *)
(* historical store after its fetches and loops over the roster on its      *)
(* copy, saves the copy, loads the prediction log and tracks the            *)
(* predictions on that copy, saves that copy.                               *)
(***************************************************************************)
\* the run of the other process is under way
Running(w) == writers[w].pc \notin {"idle", "done"}

\* the process starts and fetches; new Date() gives the run its date
StartRun(w) ==
  \E options \in {o \in RunOptions : ~o.dryRun}, fetched \in Fetches :
    /\ writers[w].pc = "idle"
    /\ writers' =
         [v \in Writers |->
            IF v = w
            THEN [pc |-> "fetched", date |-> today, forceLog |-> options.forceLog,
                  fetched |-> Some(fetched), module |-> historicalData,
                  loop |-> None, tracking |-> None, tomorrow |-> 0,
                  overlapped |-> \E u \in Writers \ {w} : Running(u)]
            ELSE [writers[v] EXCEPT !.overlapped = @ \/ Running(v)]]
    /\ UNCHANGED <<today, historicalData, predictionLog, moduleData, upstream,
                   response, now, statusCache, callers, refreshStarted, served>>

\* loadHistoricalData() and the loop over the roster, on the copy loaded
LoadAndProcess(w) ==
  /\ writers[w].pc = "fetched"
  /\ writers' =
       [writers EXCEPT
          ![w].pc = "processed",
          ![w].loop =
            Some(ProcessSchools(historicalData, writers[w].date,
                                writers[w].fetched[1].statuses[1],
                                WeatherMetrics(writers[w].fetched[1].weather.conditions,
                                               writers[w].fetched[1].weather.forecast),
                                writers[w].forceLog, FALSE))]
  /\ UNCHANGED <<today, historicalData, predictionLog, moduleData, upstream,
               response, now, statusCache, callers, refreshStarted, served>>

\* "Save if any records were logged": the copy replaces the file
SaveRecords(w) ==
  /\ writers[w].pc = "processed"
  /\ historicalData' = IF writers[w].loop[1].logged # <<>>
                       THEN writers[w].loop[1].data ELSE historicalData
  /\ writers' = [writers EXCEPT ![w].pc = "saved"]
  /\ UNCHANGED <<today, predictionLog, moduleData, upstream, response,
               now, statusCache, callers, refreshStarted, served>>

\* loadPredictionLog(), resolvePredictions and saveTomorrowPredictions, on
\* the copy loaded; tomorrow is the day after this step, whatever the date
\* the run started on
LoadAndTrack(w) ==
  /\ writers[w].pc = "saved"
  /\ writers' =
       [writers EXCEPT
          ![w].pc = "tracked",
          ![w].tracking =
            Some(TrackPredictionsOn(writers[w].module, predictionLog,
                                    writers[w].date, today,
                                    writers[w].fetched[1].statuses[1],
                                    writers[w].fetched[1].weather)),
          ![w].tomorrow = today + 1]
  /\ UNCHANGED <<today, historicalData, predictionLog, moduleData, upstream,
               response, now, statusCache, callers, refreshStarted, served>>

\* savePredictionLog(predictionLog): the copy replaces the file
SaveLog(w) ==
  /\ writers[w].pc = "tracked"
  /\ predictionLog' = writers[w].tracking[1].log
  /\ writers' = [writers EXCEPT ![w].pc = "done"]
  /\ UNCHANGED <<today, historicalData, moduleData, upstream, response,
               now, statusCache, callers, refreshStarted, served>>

RunStep ==
  \E w \in Writers :
    StartRun(w) \/ LoadAndProcess(w) \/ SaveRecords(w) \/ LoadAndTrack(w) \/ SaveLog(w)

\* the files as shipped, on 30 March, and no run under way
InitWriters ==
  /\ today = MaxDay - 1
  /\ historicalData = ShippedRecords
  /\ predictionLog = <<>>
  /\ moduleData = ShippedRecords
  /\ upstream = CalmDay
  /\ response = None
  /\ writers = NoWriters
  /\ StatusCacheAtStart

NextWriters == RunStep \/ NextDay

SpecWriters == InitWriters /\ [][NextWriters]_vars

(***************************************************************************)
(* Two invocations of logWeatherData in one Node.js process, as two         *)
(* requests to /api/log-weather make.  An invocation yields at its one      *)
(* await, the Promise.all of the four fetches; what follows it, from        *)
(* loadHistoricalData() to savePredictionLog(), is synchronous and runs as  *)
(* one step.  The matchers search the records the process required when it *)
(* started.                                                                 *)
(***************************************************************************)
\* a faulty load, which takes the records as they were when the invocation
\* started
LoadedRecordsAtStart(w) == writers[w].module

\* loadHistoricalData(), after the await
LoadedRecords(w) == historicalData

\* the invocation resumes after its fetches and runs to its end
FinishRun(w) ==
  /\ writers[w].pc = "fetched"
  /\ \E loop \in {ProcessSchools(LoadedRecords(w), writers[w].date,
                                 writers[w].fetched[1].statuses[1],
                                 WeatherMetrics(writers[w].fetched[1].weather.conditions,
                                                writers[w].fetched[1].weather.forecast),
                                 writers[w].forceLog, FALSE)},
        tracking \in {TrackPredictionsOn(moduleData, predictionLog, writers[w].date,
                                         today, writers[w].fetched[1].statuses[1],
                                         writers[w].fetched[1].weather)} :
       /\ historicalData' = IF loop.logged # <<>> THEN loop.data ELSE historicalData
       /\ predictionLog' = tracking.log
       /\ writers' = [writers EXCEPT ![w].pc = "done",
                                     ![w].loop = Some(loop),
                                     ![w].tracking = Some(tracking),
                                     ![w].tomorrow = today + 1]
  /\ UNCHANGED <<today, moduleData, upstream, response, now, statusCache, callers,
                 refreshStarted, served>>

InvocationStep == \E w \in Writers : StartRun(w) \/ FinishRun(w)

NextProcess == InvocationStep \/ NextDay

SpecProcess == InitWriters /\ [][NextProcess]_vars

(***************************************************************************)
(* The status cache of schoolDelay.js in the long-lived server process.     *)
(* getSchoolStatuses is async: between its test of the cache and its write  *)
(* of the cache it awaits SchoolCast and, when SchoolCast gives no page,    *)
(* the local radio stations, and other requests run meanwhile.  The daily   *)
(* script writes the two stores from a process of its own.                  *)
(***************************************************************************)
\* the clock runs over minutes 1 .. MaxMinute
MaxMinute == 6

\* what parseSchoolStatus finds for each school on the page a source serves
\* on a storm day: two schools are listed, the others are not mentioned
StormPage ==
  [IASD |-> "closed", HCSD |-> "2-hour delay", MCASD |-> "unknown",
   PMASD |-> "unknown", PLSD |-> "unknown", USD |-> "unknown"]

\* what a source answers: no page, or the page
Pages == {None, Some(StormPage)}

\* parseSchoolStatus(schoolCode, htmlContent)
parseSchoolStatus(schoolCode, htmlContent) ==
  IF htmlContent = None THEN "unknown" ELSE htmlContent[1][schoolCode]

\* the statuses object the loop over the roster builds
BuildStatuses(html, source, checked) ==
  [code \in SchoolCodes |->
     [status |-> IF parseSchoolStatus(code, html) = "unknown" /\ html # None
                 THEN "open" ELSE parseSchoolStatus(code, html),
      source |-> IF html # None THEN source ELSE "unavailable",
      lastChecked |-> checked]]

\* a faulty test, by which an entry of exactly five minutes is still valid
CacheIsValidAtFiveMinutes(cache, time) ==
  /\ ToNum(cache.lastUpdated) # 0
  /\ time - cache.lastUpdated[1] <= CACHE_DURATION

\* statusCache.lastUpdated && (now - statusCache.lastUpdated) < CACHE_DURATION
CacheIsValid(cache, time) ==
  /\ ToNum(cache.lastUpdated) # 0
  /\ time - cache.lastUpdated[1] < CACHE_DURATION

\* getSchoolStatuses() up to its first await: the cached statuses, or the
\* request to SchoolCast goes out
CallGetSchoolStatuses(c) ==
  /\ callers[c].pc = "idle"
  /\ IF CacheIsValid(statusCache, now)
     THEN /\ served' = Some([caller |-> c, contacted |-> FALSE,
                             statuses |-> statusCache.statuses])
          /\ UNCHANGED <<callers, refreshStarted>>
     ELSE /\ callers' = [callers EXCEPT ![c] = [pc |-> "checkSchoolCast", now |-> now]]
          /\ refreshStarted' = Some(now)
          /\ UNCHANGED served
  /\ UNCHANGED <<today, historicalData, predictionLog, moduleData, upstream,
                 response, writers, now, statusCache>>

\* the rest of getSchoolStatuses() once it has its page or has none: the
\* statuses are built, the cache is replaced, the statuses are returned
FinishRefresh(c, html, source) ==
  /\ statusCache' = [lastUpdated |-> Some(callers[c].now),
                     statuses |-> BuildStatuses(html, source, now)]
  /\ callers' = [callers EXCEPT ![c] = IdleCaller]
  /\ served' = Some([caller |-> c, contacted |-> TRUE,
                     statuses |-> BuildStatuses(html, source, now)])
  /\ UNCHANGED <<today, historicalData, predictionLog, moduleData, upstream,
                 response, writers, now, refreshStarted>>

\* checkSchoolCast() resolves
SchoolCastAnswers(c) ==
  /\ callers[c].pc = "checkSchoolCast"
  /\ \E html \in Pages :
       IF html # None
       THEN FinishRefresh(c, html, "SchoolCast")
       ELSE /\ callers' = [callers EXCEPT ![c].pc = "checkLocalRadio"]
            /\ UNCHANGED <<today, historicalData, predictionLog, moduleData,
                           upstream, response, writers, now, statusCache,
                           refreshStarted, served>>

\* checkLocalRadio() resolves
LocalRadioAnswers(c) ==
  /\ callers[c].pc = "checkLocalRadio"
  /\ \E html \in Pages : FinishRefresh(c, html, "Local Radio")

\* a minute passes
Tick ==
  /\ now < MaxMinute
  /\ now' = now + 1
  /\ UNCHANGED <<today, historicalData, predictionLog, moduleData, upstream,
                 response, writers, statusCache, callers, refreshStarted, served>>

CacheStep ==
  \E c \in Callers :
    CallGetSchoolStatuses(c) \/ SchoolCastAnswers(c) \/ LocalRadioAnswers(c)

NextCache == CacheStep \/ Tick \/ DailyScript

SpecCache == Init /\ [][NextCache]_vars

(***************************************************************************)
(* The same program started on a long archive: historicalData.json holds    *)
(* the records of ArchiveDays (or one fewer) storm days on which every      *)
(* school of the roster was closed, but for at most one day, missDay, on    *)
(* which every school stayed open.  The records are the ones logWeatherData *)
(* writes on such days.                                                     *)
(***************************************************************************)
ArchiveDays == 6

ArchiveRecords(nDays, missDay, lastDate) ==
  LET roster == INDIANA_COUNTY_SCHOOLS
      metrics == WeatherMetrics(WinterStorm.conditions, WinterStorm.forecast)
      DayOf(i) == ((i - 1) \div Len(roster)) + 1
      CodeOf(i) == roster[((i - 1) % Len(roster)) + 1]
  IN [i \in 1..(nDays * Len(roster)) |->
        NewRecord(SCHOOL_CODE_TO_NAME[CodeOf(i)],
                  lastDate - nDays + DayOf(i),
                  IF DayOf(i) = missDay THEN "open" ELSE "closed",
                  metrics)]

InitArchive ==
  /\ today = MaxDay - 1
  /\ \E nDays \in (ArchiveDays - 1)..ArchiveDays, missDay \in 0..ArchiveDays :
       /\ missDay <= nDays
       /\ historicalData = ArchiveRecords(nDays, missDay, today - 1)
  /\ predictionLog = <<>>
  /\ moduleData = historicalData
  /\ upstream = CalmDay
  /\ response = None
  /\ writers = NoWriters
  /\ StatusCacheAtStart

SpecArchive == InitArchive /\ [][Next]_vars

(***************************************************************************)
(* GET /api/schools/delay, the live route of the server process.  It reads  *)
(* what NOAA serves, scores it against the records schoolDelay.js holds and *)
(* answers with the prediction and the per-school probabilities.  The body  *)
(* is kept without the fields copied from the fetches (weather,             *)
(* currentStatus, timestamps) and without tomorrowHistoricalMatch, which    *)
(* needs the start times and temperatures of the forecast periods.          *)
(***************************************************************************)
\* currentConditions?.temperature?.fahrenheit ?? 32
RouteTempF(currentConditions) ==
  IF currentConditions = None \/ currentConditions[1].fahrenheit = None THEN 32
  ELSE currentConditions[1].fahrenheit[1]

\* currentConditions?.windSpeed?.mph || 0
RouteWindMph(currentConditions) ==
  IF currentConditions = None THEN 0 ELSE ToNum(currentConditions[1].mph)

\* the wind chill the route computes for the per-school predictions
RouteWindChill(tempF, windMph) ==
  IF tempF <= 50 /\ windMph > 3 THEN WindChillFormula(tempF, windMph) ELSE tempF

\* riskTier of a school, from its combined probability
RouteRiskTier(combinedProbability) ==
  IF combinedProbability >= 70 THEN "high"
  ELSE IF combinedProbability >= 40 THEN "moderate"
  ELSE IF combinedProbability >= 15 THEN "low"
  ELSE "minimal"

\* a faulty blend, taken as soon as the school has one match
RouteSchoolDelayOneMatch(prediction, schoolPrediction) ==
  IF schoolPrediction # None /\ schoolPrediction[1].matchCount >= 1
  THEN Round(6 * prediction.delayProbability + 4 * schoolPrediction[1].delayRate, 10)
  ELSE prediction.delayProbability

\* "Blend: 60% overall prediction + 40% school-specific history (if available)"
RouteSchoolDelay(prediction, schoolPrediction) ==
  IF schoolPrediction # None /\ schoolPrediction[1].matchCount >= 2
  THEN Round(6 * prediction.delayProbability + 4 * schoolPrediction[1].delayRate, 10)
  ELSE prediction.delayProbability

RouteSchoolClosure(prediction, schoolPrediction) ==
  IF schoolPrediction # None /\ schoolPrediction[1].matchCount >= 2
  THEN Round(6 * prediction.closureProbability + 4 * schoolPrediction[1].closureRate, 10)
  ELSE prediction.closureProbability

\* the object the map over INDIANA_COUNTY_SCHOOLS returns for one school
SchoolWithStatus(code, prediction, schoolPrediction) ==
  [code |-> code,
   delayProbability |-> RouteSchoolDelay(prediction, schoolPrediction),
   closureProbability |-> RouteSchoolClosure(prediction, schoolPrediction),
   riskTier |-> RouteRiskTier(Max(RouteSchoolDelay(prediction, schoolPrediction),
                                  RouteSchoolClosure(prediction, schoolPrediction))),
   historicalMatches |-> IF schoolPrediction = None THEN 0
                         ELSE schoolPrediction[1].matchCount]

\* schoolsWithStatus
SchoolsWithStatus(data, prediction, tempF, windChill, forecast) ==
  [i \in 1..Len(INDIANA_COUNTY_SCHOOLS) |->
     SchoolWithStatus(INDIANA_COUNTY_SCHOOLS[i], prediction,
                      getSchoolHistoricalPrediction(
                        data, SCHOOL_CODE_TO_HISTORICAL_NAME[INDIANA_COUNTY_SCHOOLS[i]],
                        Some(tempF), Some(windChill), ScorerSnowEstimate(forecast),
                        ScorerWeatherType(forecast, Some(windChill))))]

\* res.json({...prediction, predictionAccuracy, schools})
RouteBody(prediction, accuracy, schools) ==
  [probability |-> prediction.probability,
   delayProbability |-> prediction.delayProbability,
   closureProbability |-> prediction.closureProbability,
   status |-> prediction.status,
   factors |-> prediction.factors,
   historicalMatch |-> prediction.historicalMatch,
   predictionAccuracy |-> accuracy,
   schools |-> schools]

\* the body the route sends for what it fetched, over the records held
SchoolDelayBody(data, log, fetched) ==
  RouteBody(calculateDelayProbability(data, fetched.conditions, fetched.forecast,
                                      IF fetched.alerts = None THEN <<>>
                                      ELSE fetched.alerts[1]),
            getPredictionAccuracy(log),
            SchoolsWithStatus(data,
                              calculateDelayProbability(
                                data, fetched.conditions, fetched.forecast,
                                IF fetched.alerts = None THEN <<>>
                                ELSE fetched.alerts[1]),
                              RouteTempF(fetched.conditions),
                              RouteWindChill(RouteTempF(fetched.conditions),
                                             RouteWindMph(fetched.conditions)),
                              fetched.forecast))

\* module.exports = async (req, res) => ...
GetSchoolDelay ==
  /\ response' = Some(SchoolDelayBody(moduleData, predictionLog, upstream))
  /\ UNCHANGED <<today, historicalData, predictionLog, moduleData, upstream,
               writers, now, statusCache, callers, refreshStarted, served>>

(***************************************************************************)
(* The live route over every input of a bounded family: what NOAA serves    *)
(* is any combination of an observation, a forecast and up to MaxAlerts     *)
(* alerts, and the server holds a history of up to MaxRecords records.      *)
(***************************************************************************)
MaxAlerts == 2
MaxRecords == 12

\* an observation without a temperature or a wind speed
NoReading == [fahrenheit |-> None, mph |-> None]

ConditionsServed == {None, Some(CalmConditions), Some(FrigidConditions), Some(NoReading)}

\* forecasts: none, a calm one, a storm, ice, and snow of a stated amount
ForecastsServed ==
  {None, Some(CalmForecast), Some(StormForecast),
   Some(<<"freezing rain and sleet likely", "a chance of flurries">>)}
  \cup {Some(<<AmountTexts[n]>>) : n \in DOMAIN AmountTexts}

\* alerts: an extreme and a minor winter alert, and one that is not a winter
\* alert
AlertKinds ==
  {[event |-> "Blizzard Warning", severity |-> "Extreme"],
   [event |-> "Winter Weather Advisory", severity |-> "Minor"],
   [event |-> "Flood Watch", severity |-> "Severe"]}

AlertsServed == UNION {[1..n -> AlertKinds] : n \in 0..MaxAlerts}

\* the weather of the days of a history: three kinds of snow day, more and
\* less like a storm day, and a calm day
DayProfiles ==
  <<[temperature |-> 5, feelsLike |-> -15, snowfall |-> 80, type |-> "heavy snow"],
    [temperature |-> 12, feelsLike |-> -5, snowfall |-> 60, type |-> "heavy snow"],
    [temperature |-> 20, feelsLike |-> 8, snowfall |-> 30, type |-> "snow"],
    [temperature |-> 35, feelsLike |-> 31, snowfall |-> 0, type |-> "normal"]>>

DayStatuses == <<"closed", "delay", "open">>

\* a history of n records as the logger writes them: record i is of United
\* when i is a multiple of 3 and of Indiana otherwise; the profiles and the
\* statuses rotate, from an offset that differs from one length to the next
HistoryRecord(i, offset) ==
  [school |-> IF i % 3 = 0 THEN "United" ELSE "Indiana",
   date |-> i - 100,
   status |-> DayStatuses[(((i + offset) \div 4 + i + offset) % 3) + 1],
   temperature |-> DayProfiles[((i + offset) % 4) + 1].temperature,
   snowfall |-> DayProfiles[((i + offset) % 4) + 1].snowfall,
   type |-> DayProfiles[((i + offset) % 4) + 1].type,
   feelsLike |-> DayProfiles[((i + offset) % 4) + 1].feelsLike]

History(n) == [i \in 1..n |-> HistoryRecord(i, n % 3)]

InitLive ==
  /\ today = 0
  /\ \E n \in 0..MaxRecords : historicalData = History(n)
  /\ predictionLog = <<>>
  /\ moduleData = historicalData
  /\ \E conditions \in ConditionsServed, forecast \in ForecastsServed,
        alerts \in AlertsServed :
       upstream = [conditions |-> conditions, forecast |-> forecast,
                   alerts |-> Some(alerts)]
  /\ response = None
  /\ writers = NoWriters
  /\ StatusCacheAtStart

NextLive == GetSchoolDelay

SpecLive == InitLive /\ [][NextLive]_vars

(***************************************************************************)
(* The long-lived server process of server/index.js: it answers             *)
(* /api/log-weather by a run of logWeatherData of its own, whose prediction *)
(* tracking calls the matchers of the schoolDelay.js the process required   *)
(* when it started.                                                         *)
(***************************************************************************)
\* app.get and app.post of '/api/log-weather'
LogWeatherRoute ==
  \E options \in RunOptions, fetched \in Fetches :
    LogWeatherData(options.forceLog, options.dryRun, TRUE,
                   fetched.weather, fetched.statuses)

NextServer == LogWeatherRoute \/ NextDay

SpecServer == Init /\ [][NextServer]_vars

(***************************************************************************)
(* Properties of the two stores.                                            *)
(***************************************************************************)
\* the key of a historical record or of a prediction log entry
KeyOf(e) == <<e.date, e.school>>

NoDuplicateKeys(s) ==
  \A i, j \in 1..Len(s) : KeyOf(s[i]) = KeyOf(s[j]) => i = j

IsPending(e) == e.actualStatus = Null /\ e.correct = None
IsResolved(e) == e.actualStatus # Null /\ e.correct # None

\* the runs that write: the daily job, with and without --force
WritingRuns == {o \in RunOptions : ~o.dryRun}

StatusesOf(fetched) == IF fetched.statuses = None THEN <<>> ELSE fetched.statuses[1]

\* C1: historicalData.json never holds two records with the same (school,
\* date), and a writing run that finds a record for (school, today) appends
\* nothing for that school, logs nothing for it and reports it in skipped
\* with the reason "Record already exists for today".
C1_OneRecordPerSchoolAndDate ==
  /\ NoDuplicateKeys(historicalData)
  /\ \A o \in WritingRuns, f \in Fetches :
       LET out == RunOutcome(o.forceLog, o.dryRun, FALSE, f.weather, f.statuses)
           Held(name) == \E i \in 1..Len(historicalData) :
                           KeyOf(historicalData[i]) = <<today, name>>
       IN \A name \in SchoolNames :
            Held(name) =>
              /\ \A k \in 1..Len(out.results.logged) :
                   out.results.logged[k].school # name
              /\ \E k \in 1..Len(out.results.skipped) :
                   out.results.skipped[k] =
                     [school |-> name, reason |-> "Record already exists for today"]
              /\ Cardinality({i \in 1..Len(out.historicalData) :
                                KeyOf(out.historicalData[i]) = <<today, name>>}) = 1

\* a run has written today's record of one school and not of another: the
\* next run of the day meets both cases
C1_SomeSchoolsLoggedToday ==
  /\ \E i \in 1..Len(historicalData) : historicalData[i].date = today
  /\ \E name \in SchoolNames :
       \A i \in 1..Len(historicalData) : KeyOf(historicalData[i]) # <<today, name>>

\* what a step may do to the actualStatus and the correct of an entry
C2_Step ==
  \A i \in 1..Len(predictionLog) :
    LET e == predictionLog[i]
    IN \A j \in 1..Len(predictionLog') :
         KeyOf(predictionLog'[j]) = KeyOf(e) =>
           \/ /\ predictionLog'[j].actualStatus = e.actualStatus
              /\ predictionLog'[j].correct = e.correct
           \/ IsPending(e) /\ IsResolved(predictionLog'[j])

\* resolving again, with any statuses and any date
C2_Rerun ==
  \A f \in Fetches, date \in -1..(today + 1) :
    /\ \A i \in 1..Len(predictionLog) :
         ~IsPending(predictionLog[i])
           => ResolveEntry(predictionLog[i], StatusesOf(f), date) = predictionLog[i]
    /\ (\A i \in 1..Len(predictionLog) :
          predictionLog[i].date = date => ~IsPending(predictionLog[i]))
       => resolvePredictions(predictionLog, StatusesOf(f), date)
            = [log |-> predictionLog, resolved |-> 0]

\* C2: through every step an entry of the prediction log keeps its
\* actualStatus and its correct, unless it was pending and is resolved
\* afterwards; and resolvePredictions, with any statuses and any date,
\* leaves every resolved entry as it is, and changes nothing and returns 0
\* when no entry of that date is pending.
C2_ResolvedOnceForAll == [][C2_Step]_vars /\ []C2_Rerun

\* today's entries were logged live and are resolved: a second run of the
\* day resolves over them
C2_TodayResolved ==
  /\ \E i \in 1..Len(predictionLog) :
       predictionLog[i].date = today /\ predictionLog[i].source = Null
  /\ \A i \in 1..Len(predictionLog) :
       predictionLog[i].date = today => IsResolved(predictionLog[i])

\* C3: the log phase of a writing run appends nothing and reports 0 saved
\* when the log, after the resolution, holds a pending entry dated tomorrow;
\* otherwise it appends one entry per school of the roster, each dated
\* tomorrow, pending, with predictedDisruption = (max(delayProbability,
\* closureProbability) >= 40), and reports their number.
C3_TomorrowSavedOnce ==
  \A o \in WritingRuns, f \in Fetches :
    LET out == RunOutcome(o.forceLog, o.dryRun, FALSE, f.weather, f.statuses)
        before == predictionLog
        after == out.predictionLog
        held == \E i \in 1..Len(before) :
                  before[i].date = today + 1 /\ before[i].actualStatus = Null
        added == SubSeq(after, Len(before) + 1, Len(after))
        saved == out.results.predictions[1].savedForTomorrow
    IN /\ Len(after) >= Len(before)
       /\ \A i \in 1..Len(before) : KeyOf(after[i]) = KeyOf(before[i])
       /\ held => added = <<>> /\ saved = 0
       /\ ~held =>
            /\ Len(added) = Len(INDIANA_COUNTY_SCHOOLS)
            /\ saved = Len(added)
            /\ \A k \in 1..Len(added) :
                 /\ added[k].school = SCHOOL_CODE_TO_NAME[INDIANA_COUNTY_SCHOOLS[k]]
                 /\ added[k].date = today + 1
                 /\ added[k].actualStatus = Null
                 /\ added[k].correct = None
                 /\ added[k].predictedDisruption =
                      (Max(added[k].delayProbability, added[k].closureProbability) >= 40)

\* tomorrow's entries are in the log, one of them predicting a disruption on
\* the closure probability alone
C3_TomorrowPending ==
  \E i \in 1..Len(predictionLog) :
    /\ predictionLog[i].date = today + 1
    /\ predictionLog[i].actualStatus = Null
    /\ predictionLog[i].delayProbability < 40
    /\ predictionLog[i].predictedDisruption

\* C4: the prediction log never holds two entries with the same (date,
\* school), and the seed script keeps every entry of the log and adds one
\* entry for each historical record whose (date, school) is not in the log,
\* and none for the others.
C4_OneEntryPerDateAndSchool ==
  /\ NoDuplicateKeys(predictionLog)
  /\ LET merged == SeedMergedLog(historicalData, predictionLog)
         oldKeys == {KeyOf(predictionLog[i]) : i \in 1..Len(predictionLog)}
         recordKeys == {KeyOf(historicalData[i]) : i \in 1..Len(historicalData)}
     IN /\ NoDuplicateKeys(merged)
        /\ {KeyOf(merged[j]) : j \in 1..Len(merged)} = oldKeys \cup recordKeys
        /\ \A i \in 1..Len(predictionLog) :
             \E j \in 1..Len(merged) : merged[j] = predictionLog[i]

\* the log holds seeded entries and a live entry whose (date, school) is
\* also the key of a historical record: the seed script has to pass over it
C4_LiveEntryOfLoggedDay ==
  /\ \E j \in 1..Len(predictionLog) : predictionLog[j].source = "backtest"
  /\ \E i \in 1..Len(predictionLog), k \in 1..Len(historicalData) :
       /\ predictionLog[i].source = Null
       /\ KeyOf(historicalData[k]) = KeyOf(predictionLog[i])

\* what a step may do to the two stores
C5_Step ==
  /\ Len(historicalData') >= Len(historicalData)
  /\ \A i \in 1..Len(historicalData) : historicalData'[i] = historicalData[i]
  /\ Len(predictionLog') >= Len(predictionLog)
  /\ \A i \in 1..Len(predictionLog) :
       LET e == predictionLog[i]
       IN \E j \in 1..Len(predictionLog') :
            \/ predictionLog'[j] = e
            \/ /\ IsPending(e)
               /\ IsResolved(predictionLog'[j])
               /\ predictionLog'[j] =
                    [e EXCEPT !.actualStatus = predictionLog'[j].actualStatus,
                              !.correct = predictionLog'[j].correct]

C6_State ==
  \A f \in Fetches :
    LET res == resolvePredictions(predictionLog, StatusesOf(f), today)
        changed == {i \in 1..Len(predictionLog) : res.log[i] # predictionLog[i]}
    IN /\ Len(res.log) = Len(predictionLog)
       /\ \A i \in changed :
            /\ predictionLog[i].date = today
            /\ IsPending(predictionLog[i])
            /\ StatusesOf(f)[CodeOfName(predictionLog[i].school)]
                 \in {"open", "closed", "2-hour delay", "early dismissal",
                      "flexible instruction"}
       /\ res.resolved = Cardinality(changed)
       /\ \A o \in WritingRuns :
            RunOutcome(o.forceLog, o.dryRun, FALSE, f.weather, f.statuses).results.errors
              = EmptyBag

\* what a step may do to a pending entry whose date has passed
C6_Step ==
  \A i \in 1..Len(predictionLog) :
    (IsPending(predictionLog[i]) /\ predictionLog[i].date < today)
      => \E j \in 1..Len(predictionLog') : predictionLog'[j] = predictionLog[i]

\* C6: resolvePredictions, with today's date and any statuses, changes only
\* pending entries dated today whose school has a known status, and returns
\* their number; a run whose fetches succeed reports no error; and in every
\* step a pending entry whose date has passed stays in the log as it is.
C6_OnlyTodaysPending == [][C6_Step]_vars /\ []C6_State

\* a live entry is still pending after its date, next to a resolved entry of
\* the same date: its school's status was unknown on that day
C6_OverduePending ==
  \E i, j \in 1..Len(predictionLog) :
    /\ predictionLog[i].source = Null /\ predictionLog[j].source = Null
    /\ predictionLog[i].date < today /\ predictionLog[j].date = predictionLog[i].date
    /\ IsPending(predictionLog[i])
    /\ IsResolved(predictionLog[j])

\* C7: when a writing run resolves a pending entry, the entry's actualStatus
\* is the normalized status its school has in today's statuses, and correct
\* tells whether predictedDisruption equals "the status is one of delay,
\* closed, early dismissal, flexible instruction day"; a pending entry dated
\* today whose school has such a status or is open is resolved by the run.
C7_ResolutionCorrect ==
  \A o \in WritingRuns, f \in Fetches :
    LET after == RunOutcome(o.forceLog, o.dryRun, FALSE, f.weather, f.statuses).predictionLog
        Disruptions == {"delay", "closed", "early dismissal", "flexible instruction day"}
    IN \A i \in 1..Len(predictionLog) :
         LET e == predictionLog[i]
             status == normalizeStatus(StatusesOf(f)[CodeOfName(e.school)])
         IN /\ (IsPending(e) /\ ~IsPending(after[i])) =>
                 /\ after[i].actualStatus = status
                 /\ status \in Disruptions \cup {"open"}
                 /\ after[i].correct = Some(e.predictedDisruption = (status \in Disruptions))
            /\ (IsPending(e) /\ e.date = today /\ status \in Disruptions \cup {"open"})
                 => IsResolved(after[i])

\* live entries have been resolved against every kind of status: an early
\* dismissal and a flexible instruction day that were predicted, a delay, a
\* closure, and an open day that was predicted to be disrupted
C7_EveryOutcomeResolved ==
  /\ \A status \in {"delay", "closed", "early dismissal", "flexible instruction day"} :
       \E i \in 1..Len(predictionLog) :
         /\ predictionLog[i].source = Null
         /\ predictionLog[i].actualStatus = status
         /\ predictionLog[i].correct = Some(predictionLog[i].predictedDisruption)
  /\ \E i \in 1..Len(predictionLog) :
       /\ predictionLog[i].source = Null
       /\ predictionLog[i].actualStatus = "open"
       /\ predictionLog[i].correct = Some(~predictionLog[i].predictedDisruption)

\* C8: on a log without a resolved entry, getPredictionAccuracy returns
\* total 0, correct 0, accuracy 0 and totalResolved 0, with the status
\* "collecting" when the log holds a pending entry and "no-data" when it
\* holds none.
C8_NothingResolved ==
  (\A i \in 1..Len(predictionLog) : predictionLog[i].correct = None) =>
    LET report == getPredictionAccuracy(predictionLog)
    IN /\ report.total = 0
       /\ report.correct = 0
       /\ report.accuracy = 0
       /\ report.totalResolved = 0
       /\ report.pendingCount = Len(predictionLog)
       /\ report.status = IF Len(predictionLog) > 0 THEN "collecting" ELSE "no-data"

\* the log holds tomorrow's entries and nothing else: the report is the
\* "collecting" one
C8_OnlyPendingEntries ==
  /\ predictionLog # <<>>
  /\ \A i \in 1..Len(predictionLog) : predictionLog[i].correct = None

\* the positions of the resolved entries of the log, and the window of the
\* report: the resolved entries followed by fewer than 30 resolved entries
ResolvedPositions == {i \in 1..Len(predictionLog) : predictionLog[i].correct # None}
WindowPositions ==
  {i \in ResolvedPositions : Cardinality({j \in ResolvedPositions : j > i}) < 30}

\* C9: the log is in the order of its dates, and when a resolved entry
\* exists the report is over the min(30, number of resolved entries) latest
\* resolved entries, none of which is older than a resolved entry left out:
\* total is their number, correct the number of the correct ones, accuracy
\* is round(100 * correct / total), backtestCount the number of those whose
\* source is "backtest", and liveCount + backtestCount = total.
C9_WindowOfThirty ==
  /\ \A i, j \in 1..Len(predictionLog) :
       i < j => predictionLog[i].date <= predictionLog[j].date
  /\ ResolvedPositions # {} =>
       LET report == getPredictionAccuracy(predictionLog)
           inWindow == WindowPositions
           right == {i \in inWindow : predictionLog[i].correct = Some(TRUE)}
           seeded == {i \in inWindow : predictionLog[i].source = "backtest"}
       IN /\ Cardinality(inWindow) = Min(30, Cardinality(ResolvedPositions))
          /\ \A i \in inWindow, j \in ResolvedPositions \ inWindow :
               predictionLog[j].date <= predictionLog[i].date
          /\ report.total = Cardinality(inWindow)
          /\ report.correct = Cardinality(right)
          /\ 2 * report.total * report.accuracy <= 200 * report.correct + report.total
          /\ 200 * report.correct + report.total < 2 * report.total * (report.accuracy + 1)
          /\ report.backtestCount = Cardinality(seeded)
          /\ report.liveCount + report.backtestCount = report.total

\* more than 30 entries are resolved, live ones among the latest 30, and an
\* entry that is not correct lies just before the window
C9_IncorrectBeforeWindow ==
  /\ Cardinality(ResolvedPositions) > 30
  /\ \E i \in WindowPositions : predictionLog[i].source = Null
  /\ \E j \in ResolvedPositions \ WindowPositions :
       /\ predictionLog[j].correct = Some(FALSE)
       /\ \A k \in ResolvedPositions \ WindowPositions : k <= j

\* C10: the streak of the report is the number of resolved entries that are
\* correct and followed, in the log, by correct resolved entries only; it is
\* 0 when the last resolved entry is not correct, and it is not bounded by
\* the window of 30.
C10_StreakOverAllResolved ==
  ResolvedPositions # {} =>
    LET report == getPredictionAccuracy(predictionLog)
        suffix == {i \in ResolvedPositions :
                     \A j \in ResolvedPositions :
                       j >= i => predictionLog[j].correct = Some(TRUE)}
        last == CHOOSE i \in ResolvedPositions : \A j \in ResolvedPositions : j <= i
    IN /\ report.streak = Cardinality(suffix)
       /\ predictionLog[last].correct # Some(TRUE) => report.streak = 0
       /\ report.totalResolved = Cardinality(ResolvedPositions)

\* more than 30 resolved entries in a row are correct, up to the last one,
\* after one that is not
C10_StreakPastWindow ==
  /\ ResolvedPositions # {}
  /\ getPredictionAccuracy(predictionLog).streak > 30
  /\ getPredictionAccuracy(predictionLog).streak
       < getPredictionAccuracy(predictionLog).totalResolved


(***************************************************************************)
(* The scorer, the matcher and the per-school adjustment, on the live route. *)
(***************************************************************************)
\* the alerts the route passes to the scorer
AlertsOf(fetched) == IF fetched.alerts = None THEN <<>> ELSE fetched.alerts[1]

\* the additive rule score of what NOAA serves, before blending and cap
RuleScore == SumImpacts(HeuristicFactors(upstream.conditions, upstream.forecast,
                                         AlertsOf(upstream)))

\* C11: for every combination of alerts, current conditions, forecast and
\* historical records, the probability calculateDelayProbability returns is
\* an integer in [0, 95]; 100 is never reported.
C11_ProbabilityWithinCap ==
  response # None =>
    response[1].probability \in 0..95

\* the rules add up to more than 100 and the route answers 95
C11_CapReached ==
  /\ response # None
  /\ RuleScore > 100
  /\ response[1].probability = 95

\* C12: when a historical aggregate exists, the final probability is
\* round(0.6 h + 0.4 disruptionRate) re-clamped to [0, 95], where h is the
\* additive rule score already clamped to [0, 95], and a factor with impact
\* round(0.4 disruptionRate) is appended.
C12_BlendOfClampedScore ==
  (response # None /\ response[1].historicalMatch # None) =>
    /\ response[1].probability =
         Max(0, Min(95, Round(6 * Max(0, Min(95, RuleScore))
                              + 4 * response[1].historicalMatch[1].disruptionRate, 10)))
    /\ response[1].factors[Len(response[1].factors)].impact =
         Round(4 * response[1].historicalMatch[1].disruptionRate, 10)

\* the shares of the tier table, in tenths: closure and delay
TierShares(final) ==
  IF final >= 70 THEN [closure |-> 6, delay |-> 4]
  ELSE IF final >= 40 THEN [closure |-> 4, delay |-> 6]
  ELSE [closure |-> 3, delay |-> 7]

AmountServed ==
  IF \E n \in DOMAIN AmountTexts : upstream.forecast = Some(<<AmountTexts[n]>>)
  THEN CHOOSE n \in DOMAIN AmountTexts : upstream.forecast = Some(<<AmountTexts[n]>>)
  ELSE 0

\* the same inputs with another forecast amount: what the scorer returns, the
\* rule score and the disruption rate of the similar days (-1 without any)
ProbabilityAt(n) ==
  calculateDelayProbability(moduleData, upstream.conditions, Some(<<AmountTexts[n]>>),
                            AlertsOf(upstream)).probability

RuleScoreAt(n) ==
  SumImpacts(HeuristicFactors(upstream.conditions, Some(<<AmountTexts[n]>>),
                              AlertsOf(upstream)))

RateOf(match) == IF match = None THEN -1 ELSE match[1].disruptionRate

DisruptionRateAt(n) ==
  RateOf(ScorerHistoricalMatch(moduleData, upstream.conditions,
                               Some(<<AmountTexts[n]>>)))

\* C14 as stated: for snowfall amounts s1 < s2 and otherwise identical inputs
\* (alerts, conditions, remaining forecast text, historical records), the
\* probability returned for s2 is at least the one returned for s1.
C14_MonotoneInSnowfall ==
  (response # None /\ AmountServed > 0) =>
    \A s2 \in DOMAIN AmountTexts :
      s2 > AmountServed => ProbabilityAt(s2) >= response[1].probability

\* C14, amended: for s1 < s2 and otherwise identical inputs the additive rule
\* score for s2 is at least the one for s1, and so is the probability
\* returned whenever the similar days of both amounts have the same
\* disruption rate, or neither amount has similar days.
C14_MonotoneRuleScore ==
  (response # None /\ AmountServed > 0) =>
    \A s1 \in {AmountServed} :
      \A score \in {RuleScore}, rate \in {DisruptionRateAt(s1)} :
        \A s2 \in DOMAIN AmountTexts :
          s2 > s1 =>
            /\ RuleScoreAt(s2) >= score
            /\ DisruptionRateAt(s2) = rate =>
                 ProbabilityAt(s2) >= response[1].probability

\* a light amount has been scored, a heavier one has similar days of the
\* same disruption rate and scores strictly higher
C14_HeavierScoresHigher ==
  /\ response # None
  /\ AmountServed > 0
  /\ \E s2 \in DOMAIN AmountTexts :
       /\ s2 > AmountServed
       /\ DisruptionRateAt(s2) = DisruptionRateAt(AmountServed)
       /\ DisruptionRateAt(s2) >= 0
       /\ ProbabilityAt(s2) > response[1].probability

\* what the two matcher calls of one request are given
ScorerFeelsLike == ScorerWindChill(upstream.conditions)

RouteFeelsLike ==
  RouteWindChill(RouteTempF(upstream.conditions), RouteWindMph(upstream.conditions))

SnowServed == ScorerSnowEstimate(upstream.forecast)

\* the similarity of record i in the scorer's call and in the per-school call
GlobalScore(i) ==
  ScoreRecord(moduleData[i], upstream.conditions[1].fahrenheit, ScorerFeelsLike,
              SnowServed,
              ScorerWeatherType(upstream.forecast, ScorerFeelsLike)).similarity

SchoolScore(i) ==
  ScoreRecord(moduleData[i], Some(RouteTempF(upstream.conditions)),
              Some(RouteFeelsLike), SnowServed,
              ScorerWeatherType(upstream.forecast, Some(RouteFeelsLike))).similarity

\* the similarities of all the records in the two calls
GlobalScores == [i \in 1..Len(moduleData) |-> GlobalScore(i)]

SchoolScores == [i \in 1..Len(moduleData) |-> SchoolScore(i)]

\* the snowfall of record i is within five inches of the estimate
WithinFiveInches(i) == Abs(moduleData[i].snowfall - SnowServed) <= 50

Qualifies(i, score) == WithinFiveInches(i) /\ score[i] >= 5

\* the records the global aggregate and the aggregate of one school are
\* computed over
GlobalMatches ==
  FirstN(SimilarDays(moduleData, upstream.conditions[1].fahrenheit, ScorerFeelsLike,
                     SnowServed,
                     ScorerWeatherType(upstream.forecast, ScorerFeelsLike)), 8)

SchoolMatches(name) ==
  LET OfSchool(r) == r.school = name
  IN FirstN(SimilarDays(SelectSeq(moduleData, OfSchool),
                        Some(RouteTempF(upstream.conditions)), Some(RouteFeelsLike),
                        SnowServed,
                        ScorerWeatherType(upstream.forecast, Some(RouteFeelsLike))), 5)

\* the positions in moduleData of the records of a sequence of matches
PositionsOf(matches) ==
  {i \in 1..Len(moduleData) :
     \E j \in 1..Len(matches) : matches[j].record = moduleData[i]}

\* the positions of the records of one school
RecordsOf(name) == {i \in 1..Len(moduleData) : moduleData[i].school = name}

\* the retained records of a pool
Retained(score, pool) == {i \in pool : Qualifies(i, score)}

\* the retained records that come before record i when the more similar go
\* first and equally similar ones stay in the order of the records
Ahead(i, score, retained) ==
  {j \in retained : score[j] > score[i] \/ (score[j] = score[i] /\ j < i)}

\* the retained records with fewer than k retained records before them
AmongTop(k, score, retained) ==
  {i \in retained : Cardinality(Ahead(i, score, retained)) < k}

HistoricalNames ==
  {SCHOOL_CODE_TO_HISTORICAL_NAME[INDIANA_COUNTY_SCHOOLS[s]] :
     s \in 1..Len(INDIANA_COUNTY_SCHOOLS)}

\* C15: a historical record contributes to a match aggregate if and only if
\* its snowfall differs from the current estimate by at most 5 inches and its
\* similarity score is at least 5; a record more than 5 inches apart is
\* excluded even when every other field matches.
C15_ContributesIffSimilar ==
  response # None =>
    /\ upstream.conditions # None =>
         PositionsOf(GlobalMatches) = Retained(GlobalScores, 1..Len(moduleData))
    /\ \A score \in {SchoolScores} :
         \A name \in HistoricalNames :
           PositionsOf(SchoolMatches(name)) = Retained(score, RecordsOf(name))

\* C15 as amended: a record contributes to a match aggregate if and only if
\* it is within 5 inches, scores at least 5 and fewer than k qualifying
\* records come before it (8 for the global aggregate, 5 among the records of
\* its school); the counts the route reports are the counts of these records.
C15_ContributesIffSimilarAndAmongTop ==
  response # None =>
    /\ upstream.conditions # None =>
         \A score \in {GlobalScores} :
           \A retained \in {Retained(score, 1..Len(moduleData))} :
             /\ PositionsOf(GlobalMatches) = AmongTop(8, score, retained)
             /\ IF PositionsOf(GlobalMatches) = {}
                THEN response[1].historicalMatch = None
                ELSE /\ response[1].historicalMatch # None
                     /\ response[1].historicalMatch[1].matchCount
                          = Cardinality(PositionsOf(GlobalMatches))
    /\ \A score \in {SchoolScores} :
         \A s \in 1..Len(INDIANA_COUNTY_SCHOOLS) :
           \A name \in {SCHOOL_CODE_TO_HISTORICAL_NAME[INDIANA_COUNTY_SCHOOLS[s]]} :
             \A retained \in {Retained(score, RecordsOf(name))} :
               /\ PositionsOf(SchoolMatches(name)) = AmongTop(5, score, retained)
               /\ response[1].schools[s].historicalMatches
                    = Cardinality(PositionsOf(SchoolMatches(name)))

\* a record of exactly the temperature and the feels-like value served, of an
\* overlapping type, more than five inches apart: left out of the aggregate
C15_TooFarApartExcluded ==
  /\ response # None
  /\ upstream.conditions # None
  /\ \E i \in 1..Len(moduleData) :
       /\ ~WithinFiveInches(i)
       /\ Some(moduleData[i].temperature) = upstream.conditions[1].fahrenheit
       /\ Some(moduleData[i].feelsLike) = ScorerFeelsLike
       /\ TypeIncludes(moduleData[i].type,
                       ScorerWeatherType(upstream.forecast, ScorerFeelsLike))
       /\ i \notin PositionsOf(GlobalMatches)
       /\ i \notin PositionsOf(SchoolMatches(moduleData[i].school))

\* what getSchoolHistoricalPrediction returns to the route for one school
SchoolAggregate(name) ==
  getSchoolHistoricalPrediction(moduleData, name, Some(RouteTempF(upstream.conditions)),
                                Some(RouteFeelsLike), SnowServed,
                                ScorerWeatherType(upstream.forecast, Some(RouteFeelsLike)))

\* the positions of a set of records that have one status
WithStatus(positions, status) == {i \in positions : moduleData[i].status = status}

\* a result of the matcher is the aggregate of the top records, which are
\* min(k, retained count) of the retained ones
AggregatesTop(result, k, retained, top) ==
  IF retained = {} THEN result = None
  ELSE /\ result # None
       /\ result[1].matchCount = Min(k, Cardinality(retained))
       /\ result[1].matchCount = Cardinality(top)
       /\ result[1].matchCount \in 1..k
       /\ result[1].closedCount = Cardinality(WithStatus(top, "closed"))
       /\ result[1].delayCount = Cardinality(WithStatus(top, "delay"))
       /\ result[1].closedCount + result[1].delayCount <= result[1].matchCount
       /\ result[1].disruptionRate
            = Round(100 * (result[1].closedCount + result[1].delayCount),
                    result[1].matchCount)
       /\ result[1].closureRate
            = Round(100 * result[1].closedCount, result[1].matchCount)
       /\ result[1].delayRate
            = Round(100 * result[1].delayCount, result[1].matchCount)
       /\ result[1].closureRate <= result[1].disruptionRate
       /\ result[1].delayRate <= result[1].disruptionRate

\* topMatches lists the first records in the order of the cut
TopMatchesInOrder(result, score, retained) ==
  result # None =>
    /\ Len(result[1].topMatches) = Min(3, result[1].matchCount)
    /\ \A j \in 1..Len(result[1].topMatches) :
         \E i \in retained :
           /\ Cardinality(Ahead(i, score, retained)) = j - 1
           /\ result[1].topMatches[j].date = moduleData[i].date
           /\ result[1].topMatches[j].status = moduleData[i].status

\* C16: the matcher returns null exactly when no record is retained;
\* otherwise it aggregates the min(k, retained) most similar retained records
\* (k = 8 globally, 5 per school, ties in original record order), so that
\* 1 <= matchCount <= k, closedCount + delayCount <= matchCount, each rate is
\* round(100 * count / matchCount), and closureRate and delayRate are at most
\* disruptionRate.
C16_AggregateOfTopMatches ==
  response # None =>
    /\ upstream.conditions # None =>
         \A score \in {GlobalScores} :
           \A retained \in {Retained(score, 1..Len(moduleData))} :
             /\ AggregatesTop(response[1].historicalMatch, 8, retained,
                              AmongTop(8, score, retained))
             /\ TopMatchesInOrder(response[1].historicalMatch, score, retained)
    /\ \A score \in {SchoolScores} :
         \A name \in HistoricalNames :
           \A retained \in {Retained(score, RecordsOf(name))} :
             \A result \in {SchoolAggregate(name)} :
               AggregatesTop(result, 5, retained, AmongTop(5, score, retained))

\* more than 8 records are retained, more than 5 of one school, and the cut
\* falls between records of the same similarity
C16_CutBetweenTies ==
  /\ response # None
  /\ upstream.conditions # None
  /\ Cardinality(Retained(GlobalScores, 1..Len(moduleData))) > 8
  /\ LET retained == Retained(GlobalScores, 1..Len(moduleData))
     IN \E i \in AmongTop(8, GlobalScores, retained) :
          \E j \in retained \ AmongTop(8, GlobalScores, retained) :
            GlobalScores[j] = GlobalScores[i]
  /\ \E name \in HistoricalNames :
       Cardinality(Retained(SchoolScores, RecordsOf(name))) > 5
  /\ response[1].historicalMatch[1].matchCount = 8

\* the tier the claim gives a combined probability
TierOf(combined) ==
  CASE combined >= 70 -> "high"
    [] combined \in 40..69 -> "moderate"
    [] combined \in 15..39 -> "low"
    [] OTHER -> "minimal"

\* the entries the log phase would push for what the route was served, over
\* the same records
LogPhaseEntries ==
  saveTomorrowPredictions(moduleData, <<>>,
                          calculateDelayProbability(moduleData, upstream.conditions,
                                                    upstream.forecast, AlertsOf(upstream)),
                          upstream.conditions, upstream.forecast, today + 1).log

\* C17: a school whose per-school match has matchCount >= 2 gets
\* round(0.6 * global + 0.4 * school rate) for delay and for closure, any other
\* school the global probabilities unchanged; its risk tier follows from the
\* larger of the two (>= 70 high, >= 40 moderate, >= 15 low, else minimal);
\* the log phase computes the same two probabilities from the same inputs.
C17_PerSchoolAdjustment ==
  response # None =>
    \A entries \in {LogPhaseEntries} :
      \A s \in 1..Len(INDIANA_COUNTY_SCHOOLS) :
        \A match \in {SchoolAggregate(
                        SCHOOL_CODE_TO_HISTORICAL_NAME[INDIANA_COUNTY_SCHOOLS[s]])} :
          /\ IF match # None /\ match[1].matchCount >= 2
             THEN /\ response[1].schools[s].delayProbability
                       = Round(6 * response[1].delayProbability
                                 + 4 * match[1].delayRate, 10)
                  /\ response[1].schools[s].closureProbability
                       = Round(6 * response[1].closureProbability
                                 + 4 * match[1].closureRate, 10)
             ELSE /\ response[1].schools[s].delayProbability
                       = response[1].delayProbability
                  /\ response[1].schools[s].closureProbability
                       = response[1].closureProbability
          /\ response[1].schools[s].riskTier
               = TierOf(Max(response[1].schools[s].delayProbability,
                            response[1].schools[s].closureProbability))
          /\ entries[s].school = SCHOOL_CODE_TO_NAME[INDIANA_COUNTY_SCHOOLS[s]]
          /\ entries[s].delayProbability = response[1].schools[s].delayProbability
          /\ entries[s].closureProbability = response[1].schools[s].closureProbability

\* one school is adjusted by its own history, one has a single match and
\* keeps the global probabilities, and the two end in different tiers
C17_AdjustedAndInherited ==
  /\ response # None
  /\ \E s, t \in 1..Len(INDIANA_COUNTY_SCHOOLS) :
       /\ response[1].schools[s].historicalMatches >= 2
       /\ response[1].schools[s].delayProbability # response[1].delayProbability
       /\ response[1].schools[s].closureProbability # response[1].closureProbability
       /\ response[1].schools[t].historicalMatches = 1
       /\ response[1].schools[t].delayProbability = response[1].delayProbability
       /\ response[1].schools[s].riskTier # response[1].schools[t].riskTier

(***************************************************************************)
(* Dry runs and failures of a run of logWeatherData.                        *)
(***************************************************************************)
\* a dry run leaves the two files alone and lists the records a real run of
\* the same options and fetches would write
DryRunOf(dry, real) ==
  /\ dry.historicalData = historicalData
  /\ dry.predictionLog = predictionLog
  /\ dry.results.predictions = None
  /\ dry.results.logged = real.results.logged
  /\ dry.results.skipped = real.results.skipped
  /\ real.historicalData = historicalData \o dry.results.logged

\* C18: a run with dryRun = true, the preview of the GET route (dryRun and
\* forceLog, in the server) included, leaves the historical records and the
\* prediction log exactly as they were, resolves and appends nothing, and
\* lists in logged the records a real run would have written.
C18_DryRunWritesNothing ==
  \A f \in Fetches :
    /\ \A forceLog \in BOOLEAN :
         DryRunOf(RunOutcome(forceLog, TRUE, FALSE, f.weather, f.statuses),
                  RunOutcome(forceLog, FALSE, FALSE, f.weather, f.statuses))
    /\ DryRunOf(RunOutcome(TRUE, TRUE, TRUE, f.weather, f.statuses),
                RunOutcome(TRUE, FALSE, TRUE, f.weather, f.statuses))

\* a preview lists records while a real run would write them, resolve
\* today's pending entries and append tomorrow's
C18_PreviewOfAWritingRun ==
  \E f \in Fetches :
    /\ RunOutcome(TRUE, TRUE, TRUE, f.weather, f.statuses).results.logged # <<>>
    /\ \E i \in 1..Len(predictionLog) :
         predictionLog[i].date = today /\ predictionLog[i].actualStatus = Null
    /\ \A real \in {RunOutcome(TRUE, FALSE, TRUE, f.weather, f.statuses)} :
         /\ real.results.predictions[1].resolved > 0
         /\ real.results.predictions[1].savedForTomorrow > 0
         /\ real.historicalData # historicalData

\* the types of the entries a failed fetch pushes
FetchErrorTypes ==
  {"weather_fetch", "forecast_fetch", "alerts_fetch", "school_status_fetch"}

\* the fetches of a run that failed, by the type of their error entry
FailedFetches(fetched) ==
  (IF fetched.weather.conditions = None THEN {"weather_fetch"} ELSE {})
  \cup (IF fetched.weather.forecast = None THEN {"forecast_fetch"} ELSE {})
  \cup (IF fetched.weather.alerts = None THEN {"alerts_fetch"} ELSE {})
  \cup (IF fetched.statuses = None THEN {"school_status_fetch"} ELSE {})

NoWeatherData(fetched) ==
  fetched.weather.conditions = None /\ fetched.weather.forecast = None

\* the run returned, with one error entry per failed fetch and none for the
\* others, with every school of the roster either logged or skipped, and
\* with a 'no_weather_data' entry exactly when it had no weather data
ReturnsWithErrors(out, fetched) ==
  /\ \A type \in FetchErrorTypes :
       CopiesIn(type, out.results.errors)
         = IF type \in FailedFetches(fetched) THEN 1 ELSE 0
  /\ CopiesIn("no_weather_data", out.results.errors)
       = IF NoWeatherData(fetched) THEN 1 ELSE 0
  /\ BagToSet(out.results.errors) \subseteq FetchErrorTypes \cup {"no_weather_data"}
  /\ Len(out.results.logged) + Len(out.results.skipped) = Len(INDIANA_COUNTY_SCHOOLS)
  /\ fetched.statuses = None => out.results.logged = <<>>

\* the status the run knows a school to have, Null when it knows none
KnownStatus(fetched, code) == normalizeStatus(StatusOf(StatusesOf(fetched), code))

\* a record of the school, with its status and the default weather, is logged
LoggedWithDefaults(out, fetched, code) ==
  \E i \in 1..Len(out.results.logged) :
    /\ out.results.logged[i].school = SCHOOL_CODE_TO_NAME[code]
    /\ out.results.logged[i].date = today
    /\ out.results.logged[i].status = KnownStatus(fetched, code)
    /\ out.results.logged[i].temperature = 32
    /\ out.results.logged[i].feelsLike = 32
    /\ out.results.logged[i].snowfall = 0

\* one of the skip rules of the loop applies to the school
SkipRuleApplies(forceLog, fetched, code) ==
  \/ recordExists(historicalData, SCHOOL_CODE_TO_NAME[code], today)
  \/ getNonWeatherClosure(today, SCHOOL_CODE_TO_NAME[code]) # None
  \/ KnownStatus(fetched, code) = "open" /\ ~isWinterSeason(today) /\ ~forceLog

\* C19: whichever of the four fetches fail, the run returns a result with one
\* error entry per failed fetch and goes on with defaults; when the current
\* conditions and the forecast both fail it records 'no_weather_data' too and
\* still logs a record for every school whose status is known.
C19_LogsEveryKnownStatus ==
  \A o \in RunOptions, fetched \in FailingFetches :
    \A out \in {RunOutcome(o.forceLog, o.dryRun, FALSE, fetched.weather,
                           fetched.statuses)} :
      /\ ReturnsWithErrors(out, fetched)
      /\ NoWeatherData(fetched) =>
           \A code \in SchoolCodes :
             KnownStatus(fetched, code) # Null
               => LoggedWithDefaults(out, fetched, code)

\* C19 as amended: the same, with a record logged for every school whose
\* status is known and to which no skip rule applies (no record of today yet,
\* no non-weather closure, not open outside the winter season without
\* forceLog), and for no other school.
C19_LogsEveryKnownStatusNotSkipped ==
  \A o \in RunOptions, fetched \in FailingFetches :
    \A out \in {RunOutcome(o.forceLog, o.dryRun, FALSE, fetched.weather,
                           fetched.statuses)} :
      /\ ReturnsWithErrors(out, fetched)
      /\ NoWeatherData(fetched) =>
           \A code \in SchoolCodes :
             (KnownStatus(fetched, code) # Null
                /\ ~SkipRuleApplies(o.forceLog, fetched, code))
               <=> LoggedWithDefaults(out, fetched, code)

\* a run without weather data has written today's records with the default
\* weather, and the next run without weather data logs none of them again
C19_LoggedWithoutWeather ==
  /\ \E i \in 1..Len(historicalData) :
       /\ historicalData[i].date = today
       /\ historicalData[i].temperature = 32
       /\ historicalData[i].type = "unknown"
  /\ \E fetched \in FailingFetches :
       /\ FailedFetches(fetched) = {"weather_fetch", "forecast_fetch"}
       /\ \E code \in SchoolCodes :
            /\ KnownStatus(fetched, code) # Null
            /\ recordExists(historicalData, SCHOOL_CODE_TO_NAME[code], today)

\* the failures of the tracking that can happen to the log as it is: a log
\* that is not there yet is not one that fails to load
FailuresHere ==
  IF predictionLog = <<>> THEN TrackingFailures \ {"none", "loadPredictionLog"}
  ELSE TrackingFailures \ {"none"}

\* C20: when a call of the prediction tracking fails (loading, resolving,
\* computing or saving), the run reports one 'prediction_tracking' error and
\* returns, the historical records it logged are saved, and the prediction
\* log on disk is as it was before the run.
C20_TrackingFailureIsolated ==
  \A o \in WritingRuns, fetched \in OutageFetches, failure \in FailuresHere :
    \A out \in {RunOutcomeUnder(failure, o.forceLog, o.dryRun, FALSE,
                                fetched.weather, fetched.statuses)} :
      /\ CopiesIn("prediction_tracking", out.results.errors) = 1
      /\ out.results.predictions = None
      /\ out.historicalData = historicalData \o out.results.logged
      /\ out.predictionLog = predictionLog

(***************************************************************************)
(* Schools of unknown status.                                               *)
(***************************************************************************)
\* the statuses the claim calls unknown: "unknown", a text that is no status,
\* the empty string, and no entry at all
UnclearStatuses ==
  [c \in SchoolCodes \ {"PLSD"} |->
     CASE c = "IASD" -> "closed"
       [] c = "HCSD" -> "unknown"
       [] c = "MCASD" -> "see the district website"
       [] c = "PMASD" -> ""
       [] OTHER -> "2-hour delay"]

\* what a run may fetch when statuses are unclear
UnclearFetches ==
  Fetches \cup {[weather |-> WinterStorm, statuses |-> Some(UnclearStatuses)],
                [weather |-> WinterStorm, statuses |-> None]}

\* the statuses the claim speaks of
IsUnclear(status) ==
  status \notin {"open", "closed", "delay", "delayed", "2-hour delay",
                 "early dismissal", "flexible instruction",
                 "flexible instruction day"}

\* C21: a school whose current status is missing, 'unknown' or not
\* normalizable gets no record in that run, is reported as skipped, and its
\* pending prediction for today stays pending.
C21_UnknownStatusNeverLogged ==
  \A o \in RunOptions, f \in UnclearFetches :
    \A out \in {RunOutcome(o.forceLog, o.dryRun, FALSE, f.weather, f.statuses)} :
      \A code \in SchoolCodes :
        IsUnclear(StatusOf(StatusesOf(f), code)) =>
          /\ \A i \in 1..Len(out.results.logged) :
               out.results.logged[i].school # SCHOOL_CODE_TO_NAME[code]
          /\ \A i \in 1..Len(out.historicalData) :
               (out.historicalData[i].school = SCHOOL_CODE_TO_NAME[code]
                  /\ out.historicalData[i].date = today)
                 => i <= Len(historicalData)
          /\ \E i \in 1..Len(out.results.skipped) :
               out.results.skipped[i].school = SCHOOL_CODE_TO_NAME[code]
          /\ \A i \in 1..Len(predictionLog) :
               (predictionLog[i].school = SCHOOL_CODE_TO_NAME[code]
                  /\ predictionLog[i].date = today
                  /\ predictionLog[i].actualStatus = Null)
                 => out.predictionLog[i] = predictionLog[i]

\* after a run on a day of mixed statuses, the school of unknown status has
\* no record of today and its prediction for today is still pending, next to
\* a school that has both a record and a resolved prediction
C21_UnknownLeftPending ==
  /\ \E i \in 1..Len(predictionLog) :
       /\ predictionLog[i].school = "United"
       /\ predictionLog[i].date = today
       /\ predictionLog[i].actualStatus = Null
  /\ \E i \in 1..Len(predictionLog) :
       /\ predictionLog[i].school = "Indiana"
       /\ predictionLog[i].date = today
       /\ predictionLog[i].actualStatus = "closed"
  /\ recordExists(historicalData, "Indiana", today)
  /\ ~recordExists(historicalData, "United", today)
  /\ getNonWeatherClosure(today, "United") = None

(***************************************************************************)
(* Missing inputs of the scorer.                                            *)
(***************************************************************************)
\* no current conditions, or an observation without a temperature
ConditionsMissing ==
  upstream.conditions = None \/ upstream.conditions[1].fahrenheit = None

ColdTexts ==
  {"Extreme cold (wind chill)", "Very cold (wind chill)",
   "Cold temperatures (wind chill)"}

\* C22: a missing input of calculateDelayProbability is no signal: missing
\* current conditions, or an observation whose temperature is null, add no
\* points and no factor, and so do a missing forecast and missing alerts;
\* with every input missing the result is probability 0, no factor, delay
\* and closure probability 0 and status 'minimal'.
C22_MissingInputsNoSignal ==
  response # None =>
    /\ ConditionsMissing =>
         /\ RuleScore = SumImpacts(AlertFactors(AlertsOf(upstream))
                                     \o ForecastFactors(upstream.forecast))
         /\ \A i \in 1..Len(response[1].factors) :
              response[1].factors[i].factor.text \notin ColdTexts
    /\ upstream.forecast = None =>
         RuleScore = SumImpacts(AlertFactors(AlertsOf(upstream))
                                  \o ColdFactors(upstream.conditions))
    /\ AlertsOf(upstream) = <<>> =>
         RuleScore = SumImpacts(ColdFactors(upstream.conditions)
                                  \o ForecastFactors(upstream.forecast))
    /\ (ConditionsMissing /\ upstream.forecast = None /\ AlertsOf(upstream) = <<>>) =>
         /\ response[1].probability = 0
         /\ response[1].factors = <<>>
         /\ response[1].delayProbability = 0
         /\ response[1].closureProbability = 0
         /\ response[1].status = "minimal"

(***************************************************************************)
(* Two writers side by side.                                                *)
(***************************************************************************)
\* the records the run of w has saved, once it has saved
RecordsSavedBy(w) ==
  IF writers[w].pc \in {"saved", "tracked", "done"}
  THEN {writers[w].loop[1].logged[i] : i \in 1..Len(writers[w].loop[1].logged)}
  ELSE {}

\* the keys of the entries for tomorrow the run of w has saved, once it has
\* saved
EntriesSavedBy(w) ==
  IF writers[w].pc = "done" /\ writers[w].tracking[1].predictions.savedForTomorrow > 0
  THEN {<<writers[w].tomorrow, name>> : name \in SchoolNames}
  ELSE {}

Held(store, key) == \E i \in 1..Len(store) : KeyOf(store[i]) = key

\* the run of w lost nothing of what it saved
NothingLost(w) ==
  /\ \A record \in RecordsSavedBy(w) : Held(historicalData, KeyOf(record))
  /\ \A key \in EntriesSavedBy(w) : Held(predictionLog, key)

\* C23: nothing but the order of the runs keeps the two stores consistent.
\* As long as no run has overlapped another, each run finds all it saved in
\* the stores afterwards and neither store holds two entries for one (date,
\* school); runs whose loads and saves interleave reach a state in which
\* records and entries one of them saved are gone.
C23_SerializedRunsLoseNothing ==
  /\ \A w \in Writers : ~writers[w].overlapped => NothingLost(w)
  /\ (\A w \in Writers : ~writers[w].overlapped)
       => NoDuplicateKeys(historicalData) /\ NoDuplicateKeys(predictionLog)

\* both runs are over, they overlapped, and a record one of them saved is
\* not in the file
C23_InterleavedRunLost ==
  /\ \A w \in Writers : writers[w].pc = "done" /\ writers[w].overlapped
  /\ \E w \in Writers :
       \E record \in RecordsSavedBy(w) : ~Held(historicalData, KeyOf(record))

\* both runs are over, they overlapped, and the entries one of them saved are
\* not in the log
InterleavedRunLostEntries ==
  /\ \A w \in Writers : writers[w].pc = "done" /\ writers[w].overlapped
  /\ \E w \in Writers : \E key \in EntriesSavedBy(w) : ~Held(predictionLog, key)

(***************************************************************************)
(* The status cache.                                                        *)
(***************************************************************************)
Fetching(c) == callers[c].pc \in {"checkSchoolCast", "checkLocalRadio"}

\* this step is a call of getSchoolStatuses by c
Calls(c) ==
  /\ callers[c].pc = "idle"
  /\ Fetching(c)' \/ (served' # served /\ served'[1].caller = c /\ callers' = callers)

\* this step is the end of a refetch by c
Completes(c) == Fetching(c) /\ callers'[c].pc = "idle"

\* the call is answered at once with the cached mapping, no source is
\* contacted and the cache stays as it is
ServedFromCache(c) ==
  /\ served' = Some([caller |-> c, contacted |-> FALSE,
                     statuses |-> statusCache.statuses])
  /\ callers'[c].pc = "idle"
  /\ statusCache' = statusCache

\* the call goes out to the sources
Refetches(c) == Fetching(c)' /\ served' = served

\* the refetch that ends replaces the whole cache with what it built, under
\* the time at which it started; the sources may all have been unavailable
ReplacesCache(c) ==
  /\ served'[1].caller = c /\ served'[1].contacted
  /\ statusCache' = [lastUpdated |-> Some(callers[c].now),
                     statuses |-> served'[1].statuses]
  /\ \A code \in SchoolCodes :
       statusCache'.statuses[code].source = "unavailable"
         => statusCache'.statuses[code].status = "unknown"

\* nothing but the end of a refetch changes the cache: no write to a store
\* does
OnlyRefetchesReplace ==
  statusCache' # statusCache => \E c \in Callers : Completes(c)

\* "a refetch started less than five minutes ago"
RefreshStartedRecently ==
  refreshStarted # None /\ now - refreshStarted[1] < CACHE_DURATION

\* "the refetch that ended last had started less than five minutes ago"
LastRefreshStartedRecently ==
  statusCache.lastUpdated # None /\ now - statusCache.lastUpdated[1] < CACHE_DURATION

\* the end of the refetch of c does not cut short an entry of the cache that
\* has not aged out
KeepsValidEntry(c) == ~CacheIsValid(statusCache, now)

\* the end of the refetch of c replaces an entry that has not aged out only
\* if that refetch was under way when the entry was stored
ReplacesValidEntryOnlyIfOlder(c) ==
  CacheIsValid(statusCache, now)
    => \A code \in SchoolCodes : callers[c].now <= statusCache.statuses[code].lastChecked

C24_Step ==
  /\ \A c \in Callers :
       /\ Calls(c) => IF RefreshStartedRecently THEN ServedFromCache(c)
                      ELSE Refetches(c)
       /\ Completes(c) => ReplacesCache(c) /\ KeepsValidEntry(c)
  /\ OnlyRefetchesReplace

\* C24, as claimed: a call is served from the cache exactly when a refetch
\* started less than five minutes before it, and an entry is replaced only
\* once it has aged out.
C24_CachedWhileRefreshStartedRecently == [][C24_Step]_vars

C24_AmendedStep ==
  /\ \A c \in Callers :
       /\ Calls(c) => IF LastRefreshStartedRecently THEN ServedFromCache(c)
                      ELSE Refetches(c)
       /\ Completes(c) => ReplacesCache(c) /\ ReplacesValidEntryOnlyIfOlder(c)
  /\ OnlyRefetchesReplace

\* C24, amended: getSchoolStatuses returns the cached mapping without
\* contacting any source exactly when the refetch that completed last had
\* started less than 5 minutes before the call; otherwise it refetches, and
\* when the refetch completes it replaces the whole cache.  Nothing else
\* changes the cache: no write to the historical store or to the prediction
\* log does.  Every refetch that completes replaces the cache, one in which
\* every source was unavailable too, and what it stored is served until it
\* ages out or a refetch that was already under way completes.
C24_CachedWhileLastRefreshStartedRecently == [][C24_AmendedStep]_vars

\* a call was served the 'unknown' statuses of a refetch that found every
\* source unavailable, while the stores have been written since the start
C24_UnknownServedFromCache ==
  /\ served # None /\ ~served[1].contacted
  /\ \A code \in SchoolCodes :
       /\ served[1].statuses[code].status = "unknown"
       /\ served[1].statuses[code].source = "unavailable"
  /\ historicalData # ShippedRecords

(***************************************************************************)
(* The records the matchers search.                                         *)
(***************************************************************************)
\* what the matcher finds for the weather a run fetched, over a record set
MatchOver(data, fetched) ==
  ScorerHistoricalMatch(data, fetched.weather.conditions, fetched.weather.forecast)

\* the matchers find over the records they search what they would find over
\* the records logged so far
MatchesTheLoggedDays ==
  \A fetched \in Fetches : MatchOver(moduleData, fetched) = MatchOver(historicalData, fetched)

\* C25: every record logWeatherData has appended in the server process is
\* among the records the matchers of that process search, so that a
\* prediction made after a day was logged matches the records of that day
\* as it would over the file.
C25_LoggedRecordsAreSearched ==
  /\ \A i \in 1..Len(historicalData) :
       \E j \in 1..Len(moduleData) : moduleData[j] = historicalData[i]
  /\ MatchesTheLoggedDays

(***************************************************************************)
(* The order of the phases of the prediction tracking.                      *)
(***************************************************************************)
\* the calls of the tracking between the load and the save of the log
PhasesOfTracking ==
  {"resolvePredictions", "calculateDelayProbability", "saveTomorrowPredictions"}

\* the run resolved the entry at position i of the log it saved
ResolvedInRun(before, after, i) ==
  IsResolved(after[i]) /\ (i > Len(before) \/ ~IsResolved(before[i]))

\* C26: in every run that writes, the entries the run appends are pending
\* entries for tomorrow, which the run has not resolved; the entries it
\* resolves are pending entries for today that the log held before the run,
\* and results.predictions.resolved counts them; the log is saved once,
\* after both phases: a run in which the resolve phase or the log phase
\* throws leaves the file as it was.
C26_ResolveThenLogThenSave ==
  \A o \in WritingRuns, f \in Fetches :
    \A before \in {predictionLog},
       after \in {RunOutcome(o.forceLog, o.dryRun, FALSE, f.weather,
                             f.statuses).predictionLog} :
      /\ Len(after) >= Len(before)
      /\ \A i \in 1..Len(before) : KeyOf(after[i]) = KeyOf(before[i])
      /\ \A i \in (Len(before) + 1)..Len(after) :
           after[i].date = today + 1 /\ IsPending(after[i])
      /\ \A i \in 1..Len(after) :
           ResolvedInRun(before, after, i)
             => i <= Len(before) /\ before[i].date = today /\ IsPending(before[i])
      /\ RunOutcome(o.forceLog, o.dryRun, FALSE, f.weather,
                    f.statuses).results.predictions[1].resolved
           = Cardinality({i \in 1..Len(after) : ResolvedInRun(before, after, i)})
      /\ \A failure \in PhasesOfTracking :
           RunOutcomeUnder(failure, o.forceLog, o.dryRun, FALSE, f.weather,
                           f.statuses).predictionLog = before

\* the log holds pending entries for today and none for tomorrow: a run now
\* resolves and appends
C26_TodayPendingTomorrowUnlogged ==
  /\ \E i \in 1..Len(predictionLog) :
       predictionLog[i].date = today /\ IsPending(predictionLog[i])
  /\ \A i \in 1..Len(predictionLog) : predictionLog[i].date # today + 1

(***************************************************************************)
(* The entries of the live log phase and of the seed script, side by side.  *)
(***************************************************************************)
\* predictedDisruption as the log phase computes it
DisruptionByMax(entry) ==
  Max(entry.delayProbability, entry.closureProbability) >= 40

\* the split the scorer makes of a probability when no history matches
LiveSplit(probability) == SplitProbability(probability, None)

\* C27: every entry of the prediction log, logged live or seeded, predicts a
\* disruption exactly when the larger of its two probabilities is at least
\* 40, and the two probabilities the seed script gives a record are those
\* the scorer's split without history gives the same clamped probability.
C27_SeedEntriesLikeLiveEntries ==
  /\ \A i \in 1..Len(predictionLog) :
       predictionLog[i].predictedDisruption = DisruptionByMax(predictionLog[i])
  /\ \A i \in 1..Len(historicalData) :
       \A sim \in {simulateProbability(historicalData[i])} :
         /\ sim.delayProbability = LiveSplit(sim.probability).delayProbability
         /\ sim.closureProbability = LiveSplit(sim.probability).closureProbability

(***************************************************************************)
(* The observation in the record logged.                                    *)
(***************************************************************************)
\* observations a station reports: 0 degrees in still air, 13 degrees in a
\* wind that chills it to 0, and the two of the days of the model
ObservedReadings ==
  {[fahrenheit |-> Some(0), mph |-> Some(0)],
   [fahrenheit |-> Some(13), mph |-> Some(10)],
   FrigidConditions, CalmConditions}

\* C28: when the observation is there, each record a run logs carries the
\* temperature observed and the wind chill computed from it, whatever their
\* values, 0 included.
C28_RecordCarriesObservation ==
  \A o \in WritingRuns, reading \in ObservedReadings :
    \A out \in {RunOutcome(o.forceLog, o.dryRun, FALSE,
                           [WinterStorm EXCEPT !.conditions = Some(reading)],
                           Some(MixedStatuses))} :
      \A i \in 1..Len(out.results.logged) :
        /\ out.results.logged[i].temperature = reading.fahrenheit[1]
        /\ Some(out.results.logged[i].feelsLike)
             = calculateWindChill(reading.fahrenheit, ToNum(reading.mph))

(***************************************************************************)
(* Two invocations in one process.                                          *)
(***************************************************************************)
\* the log the run of w saved, once it has saved
LogSavedBy(w) == IF writers[w].pc = "done" THEN writers[w].tracking[1].log ELSE <<>>

\* the log still holds every entry the run of w saved, resolved if the run
\* saved it resolved
LogUpdatesKept(w) ==
  \A i \in 1..Len(LogSavedBy(w)) :
    \E j \in 1..Len(predictionLog) :
      /\ KeyOf(predictionLog[j]) = KeyOf(LogSavedBy(w)[i])
      /\ IsResolved(LogSavedBy(w)[i]) => IsResolved(predictionLog[j])

\* C29: invocations of one process overlap at their await only, so whether
\* or not they overlap the historical store holds one record per (school,
\* date) and every record and every log update an invocation saved is still
\* in the stores.
C29_OneProcessKeepsStoresConsistent ==
  /\ NoDuplicateKeys(historicalData)
  /\ \A w \in Writers : NothingLost(w) /\ LogUpdatesKept(w)

\* both invocations were awaiting their fetches at once, both have run to
\* their end, and each appended records for the same date
C29_OverlappingInvocationsBothLogged ==
  /\ \A w \in Writers :
       /\ writers[w].pc = "done" /\ writers[w].overlapped
       /\ RecordsSavedBy(w) # {}
  /\ \A v, w \in Writers : writers[v].date = writers[w].date

(***************************************************************************)
(* The two marks of a pending entry.                                        *)
(***************************************************************************)
\* the entries resolvePredictions and saveTomorrowPredictions take as pending
PendingByStatus == {i \in 1..Len(predictionLog) : predictionLog[i].actualStatus = Null}

\* the entries getPredictionAccuracy takes as pending
PendingByCorrect == {i \in 1..Len(predictionLog) : predictionLog[i].correct = None}

\* C30: in every log the daily runs and the seed runs reach, an entry has no
\* actualStatus exactly when it has no correct, so the entries the report
\* counts as pending are the entries the two phases of the tracking treat as
\* pending.
C30_PendingByStatusIsPendingByCorrect ==
  /\ PendingByStatus = PendingByCorrect
  /\ getPredictionAccuracy(predictionLog).pendingCount = Cardinality(PendingByStatus)

\* the log holds a pending entry, an entry a daily run resolved and a seeded
\* entry
C30_PendingResolvedAndSeeded ==
  /\ PendingByStatus # {}
  /\ \E i \in 1..Len(predictionLog) :
       IsResolved(predictionLog[i]) /\ predictionLog[i].source = Null
  /\ \E i \in 1..Len(predictionLog) : predictionLog[i].source = "backtest"

====
